---- MODULE Spec2Model ----
(***************************************************************************)
(* Model of the austender collector (collector/cmd): the federal contract  *)
(* aggregator, the federal window engine (fetchAll), the source registry   *)
(* and the incremental cache (RunSearchWithCache, cache command) over the  *)
(* parquet lake, its catalog and its checkpoints.                          *)
(*                                                                         *)
(* Strings are tuples of one-character strings so that the substring,      *)
(* prefix and lower-casing operations of the code can be computed.         *)
(* Times are half days from 2024-01-01; the zero time.Time is 0.           *)
(* Decimal amounts are whole cents.                                        *)
(***************************************************************************)
EXTENDS Integers, Sequences, FiniteSets, TLC

(***************************************************************************)
(* Bounds of the model.                                                    *)
(***************************************************************************)
\* number of releases handed to contractAggregator.process in one run
MaxReleases == 3

(***************************************************************************)
(* Strings.                                                                *)
(***************************************************************************)
EmptyStr == << >>

\* strings.ToLower, one character. The capitals listed are those of the
\* strings this model builds; every other character of them is its own
\* lower case
LowerCh(c) ==
    CASE c = "A" -> "a" [] c = "C" -> "c" [] c = "E" -> "e" [] c = "G" -> "g"
      [] c = "I" -> "i" [] c = "K" -> "k" [] c = "M" -> "m" [] c = "N" -> "n"
      [] c = "O" -> "o" [] c = "P" -> "p" [] c = "T" -> "t" [] c = "V" -> "v"
      [] OTHER -> c

\* strings.ToLower
ToLower(s) == [i \in 1..Len(s) |-> LowerCh(s[i])]

\* strings.TrimSpace
RECURSIVE TrimLeft(_)
TrimLeft(s) == IF Len(s) > 0 /\ s[1] = " " THEN TrimLeft(Tail(s)) ELSE s
RECURSIVE TrimRight(_)
TrimRight(s) ==
    IF Len(s) > 0 /\ s[Len(s)] = " " THEN TrimRight(SubSeq(s, 1, Len(s) - 1)) ELSE s
TrimSpace(s) == TrimRight(TrimLeft(s))

\* strings.Index: first position (0-based) of sub in s, or -1
MatchAt(s, sub, i) == i + Len(sub) <= Len(s) /\ SubSeq(s, i + 1, i + Len(sub)) = sub
Index(s, sub) ==
    IF \E i \in 0..Len(s) : MatchAt(s, sub, i)
    THEN CHOOSE i \in 0..Len(s) : MatchAt(s, sub, i) /\ \A j \in 0..(i - 1) : ~MatchAt(s, sub, j)
    ELSE -1

\* strings.Contains
Contains(s, sub) == Index(s, sub) >= 0

\* strings.EqualFold (ASCII)
EqualFold(s, t) == ToLower(s) = ToLower(t)

\* strings.Join of two strings with a single space
JoinSp(s, t) == s \o <<" ">> \o t

RECURSIVE SumSeq(_)
SumSeq(s) == IF s = << >> THEN 0 ELSE Head(s) + SumSeq(Tail(s))


\* literals used by the source and by the inputs
sFederal == <<"f","e","d","e","r","a","l">>
sContract == <<"c","o","n","t","r","a","c","t">>
sContractAmendment == <<"c","o","n","t","r","a","c","t","A","m","e","n","d","m","e","n","t">>
sTender == <<"t","e","n","d","e","r">>
sSupplier == <<"s","u","p","p","l","i","e","r">>
sBuyer == <<"b","u","y","e","r">>
sProcuringEntity == <<"p","r","o","c","u","r","i","n","g","E","n","t","i","t","y">>
sDashA == <<"-","A">>
sCN1 == <<"C","N","1">>
sCN1A1 == <<"C","N","1","-","A","1">>
sCN2 == <<"C","N","2">>
sKPMG == <<"K","P","M","G">>
sAcme == <<"A","c","m","e">>
sATO == <<"A","T","O">>
skpmg == <<"k","p","m","g">>

\* the zero time.Time
ZeroTime == 0

defaultSourceID == sFederal

\* normalizeSourceID
normalizeSourceID(id) ==
    LET cleaned == ToLower(TrimSpace(id))
    IN  IF cleaned = EmptyStr THEN defaultSourceID ELSE cleaned

(***************************************************************************)
(* Federal releases (ocdsRelease) and the helpers of the aggregator.       *)
(***************************************************************************)
\* ocdsContract with Value == nil is HasValue = FALSE
Contract(id, title, hasValue, amount, amendments) ==
    [ID |-> id, Title |-> title, Description |-> EmptyStr,
     HasValue |-> hasValue, Amount |-> amount, Amendments |-> amendments]

Amendment(id, amended, delta) ==
    [ID |-> id, AmendedValue |-> amended, ContractAmendmentValue |-> delta]

Party(name, roles) == [Name |-> name, Roles |-> roles]

\* Date is the parsed RFC3339 day, or -1 for a string time.Parse rejects
Release(id, date, tag, parties, contracts) ==
    [ID |-> id, OCID |-> EmptyStr, Date |-> date, Tag |-> tag, Parties |-> parties,
     Contracts |-> contracts,
     Tender |-> [Present |-> FALSE, Description |-> EmptyStr,
                 ProcurementMethodDetails |-> EmptyStr]]

\* an isContractRelease that admits every tag
isContractRelease_AnyTag(rel) == TRUE
\* isContractRelease
isContractRelease(rel) ==
    \E i \in 1..Len(rel.Tag) : rel.Tag[i] = sContract \/ rel.Tag[i] = sContractAmendment

\* canonicalContractID: (id, ok)
canonicalContractID(rel) ==
    IF Len(rel.Contracts) = 0 THEN [id |-> EmptyStr, ok |-> FALSE]
    ELSE LET c0 == rel.Contracts[1]
             id == IF c0.ID = EmptyStr /\ Len(c0.Amendments) > 0
                   THEN c0.Amendments[1].ID ELSE c0.ID
             idx == Index(id, sDashA)
         IN  IF id = EmptyStr THEN [id |-> EmptyStr, ok |-> FALSE]
             ELSE IF idx > 0 THEN [id |-> SubSeq(id, 1, idx), ok |-> TRUE]
             ELSE [id |-> id, ok |-> TRUE]

\* a releaseValue that reads the amendments of every release
releaseValue_IgnoresTag(rel) ==
    IF Len(rel.Contracts) = 0 THEN [v |-> 0, ok |-> FALSE]
    ELSE LET contract == rel.Contracts[1]
             isAmendment == TRUE
             amend == contract.Amendments[1]
             base == IF contract.HasValue THEN contract.Amount ELSE 0
         IN  IF isAmendment /\ Len(contract.Amendments) > 0 /\ amend.AmendedValue > 0
                 THEN [v |-> amend.AmendedValue, ok |-> TRUE]
             ELSE IF isAmendment /\ Len(contract.Amendments) > 0
                     /\ amend.ContractAmendmentValue > 0
                 THEN [v |-> base + amend.ContractAmendmentValue, ok |-> TRUE]
             ELSE IF ~contract.HasValue THEN [v |-> 0, ok |-> FALSE]
             ELSE [v |-> contract.Amount, ok |-> TRUE]

\* releaseValue: (amount, ok)
releaseValue(rel) ==
    IF Len(rel.Contracts) = 0 THEN [v |-> 0, ok |-> FALSE]
    ELSE LET contract == rel.Contracts[1]
             isAmendment == \E i \in 1..Len(rel.Tag) : rel.Tag[i] = sContractAmendment
             amend == contract.Amendments[1]
             base == IF contract.HasValue THEN contract.Amount ELSE 0
         IN  IF isAmendment /\ Len(contract.Amendments) > 0 /\ amend.AmendedValue > 0
                 THEN [v |-> amend.AmendedValue, ok |-> TRUE]
             ELSE IF isAmendment /\ Len(contract.Amendments) > 0
                     /\ amend.ContractAmendmentValue > 0
                 THEN [v |-> base + amend.ContractAmendmentValue, ok |-> TRUE]
             ELSE IF ~contract.HasValue THEN [v |-> 0, ok |-> FALSE]
             ELSE [v |-> contract.Amount, ok |-> TRUE]

\* primarySupplier
primarySupplier(rel) ==
    LET isSup(i) == \E r \in 1..Len(rel.Parties[i].Roles) :
                        EqualFold(rel.Parties[i].Roles[r], sSupplier)
    IN  IF \E i \in 1..Len(rel.Parties) : isSup(i)
        THEN rel.Parties[CHOOSE i \in 1..Len(rel.Parties) :
                 isSup(i) /\ \A j \in 1..(i - 1) : ~isSup(j)].Name
        ELSE IF Len(rel.Parties) > 0 THEN rel.Parties[1].Name
        ELSE EmptyStr

\* primaryAgency
primaryAgency(rel) ==
    LET isAg(i) == \E r \in 1..Len(rel.Parties[i].Roles) :
                       \/ EqualFold(rel.Parties[i].Roles[r], sProcuringEntity)
                       \/ EqualFold(rel.Parties[i].Roles[r], sBuyer)
    IN  IF \E i \in 1..Len(rel.Parties) : isAg(i)
        THEN rel.Parties[CHOOSE i \in 1..Len(rel.Parties) :
                 isAg(i) /\ \A j \in 1..(i - 1) : ~isAg(j)].Name
        ELSE EmptyStr

\* ocdsRelease.ContractsText
ContractsText(rel) ==
    IF Len(rel.Contracts) = 0 THEN EmptyStr
    ELSE JoinSp(rel.Contracts[1].Title, rel.Contracts[1].Description)

\* ocdsRelease.TenderText
TenderText(rel) ==
    IF ~rel.Tender.Present THEN EmptyStr
    ELSE JoinSp(rel.Tender.Description, rel.Tender.ProcurementMethodDetails)

\* contractTitle
contractTitle(rel) ==
    IF Len(rel.Contracts) = 0 THEN EmptyStr ELSE rel.Contracts[1].Title

\* releaseContainsKeyword
releaseContainsKeyword(rel, keyword) ==
    LET needle == ToLower(keyword)
        texts == <<rel.ID, rel.OCID, ContractsText(rel), TenderText(rel), primarySupplier(rel)>>
    IN  \E i \in 1..Len(texts) :
            texts[i] # EmptyStr /\ Contains(ToLower(texts[i]), needle)

\* matchesFilters
matchesFilters(rel, req) ==
    LET keyword == TrimSpace(req.Keyword)
        company == TrimSpace(req.Company)
        agency == TrimSpace(req.Agency)
    IN  /\ ~(keyword # EmptyStr /\ ~releaseContainsKeyword(rel, keyword))
        /\ ~(company # EmptyStr
             /\ ~Contains(ToLower(primarySupplier(rel)), ToLower(company)))
        /\ ~(agency # EmptyStr
             /\ ~Contains(ToLower(primaryAgency(rel)), ToLower(agency)))

\* parseReleaseTime: the zero time for an empty or unparsable date
parseReleaseTime(value) == IF value < 0 THEN ZeroTime ELSE value

(***************************************************************************)
(* contractAggregator.                                                     *)
(***************************************************************************)
\* SearchRequest, the fields the aggregator reads
Filters(keyword, company, agency) ==
    [Keyword |-> keyword, Company |-> company, Agency |-> agency, Source |-> EmptyStr]

\* newContractAggregator; calls records, in order, the calls made to the
\* sink (kind "any", the request's OnAnyMatch) and to filters.OnMatch (kind
\* "match")
newContractAggregator(req, hasSink, hasOnMatch) ==
    [filters |-> [req EXCEPT !.Source = normalizeSourceID(req.Source)],
     aggregates |-> << >>,
     hasSink |-> hasSink, hasOnMatch |-> hasOnMatch,
     calls |-> << >>]

Call(kind, summary) == [kind |-> kind, summary |-> summary]
IsAny(c) == c.kind = "any"
IsMatch(c) == c.kind = "match"
\* the summaries delivered to OnAnyMatch, and those delivered to OnMatch
anyCalls(a) == SelectSeq(a.calls, IsAny)

\* the early return of process at its first line
rejectedEarly(rel, filters) == ~isContractRelease(rel) \/ ~matchesFilters(rel, filters)

\* the drop test of process: an existing entry that the release is not after
keepsExisting_TieReplaces(exists, releaseTime, updatedAt) ==
    exists /\ releaseTime < updatedAt
\* a process that never drops a release
keepsExisting_NeverDrops(exists, releaseTime, updatedAt) == FALSE
keepsExisting(exists, releaseTime, updatedAt) ==
    exists /\ ~(releaseTime > updatedAt)

\* MatchSummary built by process
summaryOf(a, rel, contractID, amount, releaseTime) ==
    [Source |-> normalizeSourceID(a.filters.Source), ContractID |-> contractID,
     ReleaseID |-> rel.ID, Supplier |-> primarySupplier(rel),
     Agency |-> primaryAgency(rel), Title |-> contractTitle(rel),
     Amount |-> amount, ReleaseDate |-> releaseTime, IsUpdate |-> FALSE]

\* map assignment a.aggregates[k] = v
MapPut(m, k, v) == [x \in (DOMAIN m) \cup {k} |-> IF x = k THEN v ELSE m[x]]

\* contractAggregator.process
process(a, rel) ==
    IF rejectedEarly(rel, a.filters) THEN a
    ELSE LET cid == canonicalContractID(rel)
             amt == releaseValue(rel)
         IN  IF ~cid.ok THEN a
             ELSE IF ~amt.ok \/ amt.v <= 0 THEN a
             ELSE LET releaseTime == parseReleaseTime(rel.Date)
                      summary == summaryOf(a, rel, cid.id, amt.v, releaseTime)
                      a1 == IF a.hasSink
                            THEN [a EXCEPT !.calls = Append(@, Call("any", summary))]
                            ELSE a
                      exists == cid.id \in DOMAIN a.aggregates
                      updatedAt == IF exists THEN a.aggregates[cid.id].UpdatedAt ELSE ZeroTime
                  IN  IF ~matchesFilters(rel, a.filters) THEN a1
                      ELSE IF keepsExisting(exists, releaseTime, updatedAt) THEN a1
                      ELSE [a1 EXCEPT
                              !.aggregates = MapPut(@, cid.id,
                                  [Value |-> amt.v, UpdatedAt |-> releaseTime]),
                              !.calls = IF a.hasOnMatch
                                  THEN Append(@, Call("match",
                                           [summary EXCEPT !.IsUpdate = exists]))
                                  ELSE @]

\* contractAggregator.total
RECURSIVE SumValues(_, _)
SumValues(m, keys) ==
    IF keys = {} THEN 0
    ELSE LET k == CHOOSE x \in keys : TRUE
         IN  m[k].Value + SumValues(m, keys \ {k})
total(a) == SumValues(a.aggregates, DOMAIN a.aggregates)

(***************************************************************************)
(* Time.  An instant is a number of half days: 2*d is midnight (UTC) of    *)
(* day d and 2*d+1 its noon, day 1 being 2024-01-01.                       *)
(***************************************************************************)
maxWindowDays == 31
defaultLookbackPeriod == 20

\* lengths of the months of 2024 and 2025
MonthLens == <<31, 29, 31, 30, 31, 30, 31, 31, 30, 31, 30, 31,
               31, 28, 31, 30, 31, 30, 31, 31, 30, 31, 30, 31>>

RECURSIVE DaysBefore(_)
DaysBefore(m) == IF m = 1 THEN 0 ELSE DaysBefore(m - 1) + MonthLens[m - 1]

\* first day of each month, and of the month after the last
MonthStarts == [m \in 1..(Len(MonthLens) + 1) |-> 1 + DaysBefore(m)]

DayOf(t) == t \div 2

MonthIdx(t) ==
    CHOOSE m \in 1..Len(MonthLens) :
        MonthStarts[m] <= DayOf(t) /\ DayOf(t) < MonthStarts[m + 1]

\* time.Time.Year, time.Time.Month
YearOf(t) == 2024 + (MonthIdx(t) - 1) \div 12
MonthOf(t) == ((MonthIdx(t) - 1) % 12) + 1

\* time.Time.AddDate(0, 0, days)
AddDays(t, days) == t + 2 * days

\* financialYearLabel: "fy=Y-YY" is represented by its first year Y; the
\* zero time lies in January of year 1
financialYearLabel(ts) ==
    IF ts = ZeroTime THEN 0
    ELSE IF MonthOf(ts) < 7 THEN YearOf(ts) - 1 ELSE YearOf(ts)

\* monthLabel: "month=YYYY-MM" is the pair (year, month); the zero time is
\* replaced by the current time
monthLabel(ts, now) ==
    LET t == IF ts = ZeroTime THEN now ELSE ts
    IN  <<YearOf(t), MonthOf(t)>>

\* resolveDates; AddDate(-lookback, 0, 0) keeps month and day
AddYears(t, years) == t + 2 * 365 * years
resolveDates(start, end, lookbackPeriod, now) ==
    LET lookback == IF lookbackPeriod <= 0 THEN defaultLookbackPeriod ELSE lookbackPeriod
        endUTC == IF end = ZeroTime THEN now ELSE end
        startUTC == IF start = ZeroTime THEN AddYears(endUTC, -lookback) ELSE start
    IN  IF startUTC > endUTC
        THEN [start |-> endUTC, end |-> startUTC]
        ELSE [start |-> startUTC, end |-> endUTC]

\* resolveLookbackPeriod, with no environment override
resolveLookbackPeriod(override) ==
    IF override > 0 THEN override ELSE defaultLookbackPeriod

dateWindow(start, end) == [start |-> start, end |-> end]

\* a loop that does not cut the last window at end
RECURSIVE splitLoop_NoClamp(_, _, _, _)
splitLoop_NoClamp(current, end, windowDays, windows) ==
    IF ~(current < end) THEN windows
    ELSE LET next0 == AddDays(current, windowDays)
             next == next0
             ws == Append(windows, dateWindow(current, next))
         IN  IF ~(next > current) THEN ws ELSE splitLoop_NoClamp(next, end, windowDays, ws)

\* the loop of splitDateWindows
RECURSIVE splitLoop(_, _, _, _)
splitLoop(current, end, windowDays, windows) ==
    IF ~(current < end) THEN windows
    ELSE LET next0 == AddDays(current, windowDays)
             next == IF next0 > end THEN end ELSE next0
             ws == Append(windows, dateWindow(current, next))
         IN  IF ~(next > current) THEN ws ELSE splitLoop(next, end, windowDays, ws)

\* splitDateWindows
splitDateWindows(start, end, windowDays) ==
    LET wd == IF windowDays <= 0 THEN maxWindowDays ELSE windowDays
    IN  IF end < start THEN <<dateWindow(start, end)>>
        ELSE IF start = end THEN <<dateWindow(start, end)>>
        ELSE LET ws == splitLoop(start, end, wd, << >>)
             IN  IF Len(ws) = 0 THEN <<dateWindow(start, end)>> ELSE ws

(***************************************************************************)
(* The data lake: parquet part files on disk and the parquet_files         *)
(* catalog.  files maps the path of a part to [complete, rows]: a part     *)
(* created by newSink is empty (0 bytes) until its writer is closed.       *)
(* catalog maps a path (the primary key) to its parquet_files row.         *)
(***************************************************************************)
AllowedCh ==
    {"a","b","c","d","e","f","g","h","i","j","k","l","m","n","o","p","q","r","s","t",
     "u","v","w","x","y","z","0","1","2","3","4","5","6","7","8","9","_","-"}

sUnknown == <<"u","n","k","n","o","w","n">>
sUnknownAgency == sUnknown \o <<"_","a","g","e","n","c","y">>
sUnknownCompany == sUnknown \o <<"_","c","o","m","p","a","n","y">>

IsAllowedCh(c) == c \in AllowedCh

\* sanitizePartitionComponent
sanitizePartitionComponent(v) ==
    LET lowered == ToLower(TrimSpace(v))
        underscored == [i \in 1..Len(lowered) |->
                           IF lowered[i] = " " THEN "_" ELSE lowered[i]]
        cleaned == SelectSeq(underscored, IsAllowedCh)
    IN  IF cleaned = EmptyStr THEN sUnknown ELSE cleaned

\* the directory of a partition: source=, fy=, month=, agency=, company=
PartitionDir(src, fy, month, ag, co) ==
    [source |-> src, fy |-> fy, month |-> month, agency |-> ag, company |-> co]

\* partitionKeyLake
partitionKeyLake(ts, source, agency, company, now) ==
    LET t == IF ts = ZeroTime THEN now ELSE ts
        src0 == sanitizePartitionComponent(normalizeSourceID(source))
        src == IF src0 = EmptyStr THEN sanitizePartitionComponent(defaultSourceID) ELSE src0
        ag0 == sanitizePartitionComponent(agency)
        ag == IF ag0 = EmptyStr THEN sUnknownAgency ELSE ag0
        co0 == sanitizePartitionComponent(company)
        co == IF co0 = EmptyStr THEN sUnknownCompany ELSE co0
    IN  PartitionDir(src, financialYearLabel(t), monthLabel(t, now), ag, co)

\* the directory dataLake.newSink creates
sinkDir(source, ts, agency, company, now) ==
    LET src0 == sanitizePartitionComponent(normalizeSourceID(source))
        src == IF src0 = EmptyStr THEN sanitizePartitionComponent(defaultSourceID) ELSE src0
        ag0 == sanitizePartitionComponent(agency)
        ag == IF ag0 = EmptyStr THEN sUnknownAgency ELSE ag0
        co0 == sanitizePartitionComponent(company)
        co == IF co0 = EmptyStr THEN sUnknownCompany ELSE co0
    IN  PartitionDir(src, financialYearLabel(ts), monthLabel(ts, now), ag, co)

\* the path of a part: its directory and part-<unix seconds>.parquet
PartPath(dir, stamp) == [dir |-> dir, stamp |-> stamp]

\* dataLake.newSink: os.Create makes the part, truncating a part of the same
\* path; the sink buffers rows until it is closed
newSink(files, source, ts, agency, company, now, stamp) ==
    LET dir == sinkDir(source, ts, agency, company, now)
        path == PartPath(dir, stamp)
    IN  [sink |-> [path |-> path, sourceKey |-> dir.source, fy |-> dir.fy,
                   agencyKey |-> dir.agency, companyKey |-> dir.company,
                   rows |-> << >>],
         files |-> MapPut(files, path, [complete |-> FALSE, rows |-> << >>])]

\* decimal.InexactFloat64 and decimal.NewFromFloat: an amount of whole
\* cents below 2^53 is a double whose shortest decimal form is the amount
InexactFloat64(v) == v
NewFromFloat(f) == f

\* lakeSink.write: the parquetRow appended to the writer
parquetRow(ms) ==
    [Source |-> normalizeSourceID(ms.Source), ContractID |-> ms.ContractID,
     ReleaseID |-> ms.ReleaseID, Supplier |-> ms.Supplier, Agency |-> ms.Agency,
     Title |-> ms.Title, Amount |-> InexactFloat64(ms.Amount),
     ReleaseEpoch |-> ms.ReleaseDate, IsUpdate |-> ms.IsUpdate]

sinkWrite(sink, ms) == [sink EXCEPT !.rows = Append(@, parquetRow(ms))]

\* newLakeWriterPool
newLakeWriterPool == [sinks |-> << >>]

\* lakeWriterPool.write: pool and files after routing ms to its sink
poolWrite(pool, files, ms, now, stamp) ==
    LET partition == partitionKeyLake(ms.ReleaseDate, ms.Source, ms.Agency, ms.Supplier, now)
    IN  IF partition \in DOMAIN pool.sinks
        THEN [pool |-> [pool EXCEPT !.sinks[partition] = sinkWrite(@, ms)],
              files |-> files]
        ELSE LET made == newSink(files, ms.Source, ms.ReleaseDate, ms.Agency,
                                 ms.Supplier, now, stamp)
             IN  [pool |-> [pool EXCEPT !.sinks =
                               MapPut(@, partition, sinkWrite(made.sink, ms))],
                  files |-> made.files]

\* the parquet_files row of a part
CatalogRow(src, fy, ag, co, rowCount, createdAt) ==
    [source |-> src, fy |-> fy, agency_key |-> ag, company_key |-> co,
     row_count |-> rowCount, created_at |-> createdAt]

\* lakeSink.close for every sink of the pool (lakeWriterPool.closeAll): the
\* buffered rows are flushed into the part and its catalog row is upserted
\* with created_at = now (time.Now() to the second)
RECURSIVE closeSinks(_, _, _, _, _)
closeSinks(sinks, keys, files, catalog, now) ==
    IF keys = {} THEN [files |-> files, catalog |-> catalog]
    ELSE LET k == CHOOSE x \in keys : TRUE
             s == sinks[k]
             files1 == MapPut(files, s.path, [complete |-> TRUE, rows |-> s.rows])
             catalog1 == IF Len(s.rows) > 0
                         THEN MapPut(catalog, s.path,
                                  CatalogRow(s.sourceKey, s.fy, s.agencyKey,
                                             s.companyKey, Len(s.rows), now))
                         ELSE catalog
         IN  closeSinks(sinks, keys \ {k}, files1, catalog1, now)
closeAll(pool, files, catalog, now) ==
    closeSinks(pool.sinks, DOMAIN pool.sinks, files, catalog, now)

\* a rebuild that adds the row count of each part to the count its row had
rebuildIndex_AddsCounts(files, catalog, ctxDone, now) ==
    [path \in DOMAIN files |->
        CatalogRow(path.dir.source, path.dir.fy, path.dir.agency, path.dir.company,
                   (IF path \in DOMAIN catalog THEN catalog[path].row_count ELSE 0)
                     + Len(files[path].rows),
                   now)]

\* dataLake.rebuildIndex: DELETE, then one INSERT OR REPLACE per part found
\* by WalkDir (parseLakePartition, countRows: a 0-byte part counts 0 rows
\* without error). The statements run under ctx and their errors are
\* dropped, so under a cancelled ctx the table stays as it is
rebuildIndex(files, catalog, ctxDone, now) ==
    IF ctxDone THEN catalog
    ELSE [path \in DOMAIN files |->
             CatalogRow(path.dir.source, path.dir.fy, path.dir.agency, path.dir.company,
                        IF files[path].complete THEN Len(files[path].rows) ELSE 0,
                        now)]

\* rowMatches
rowMatches(row, filters) ==
    LET rowSource == IF row.Source = EmptyStr THEN defaultSourceID ELSE row.Source
        hay == JoinSp(JoinSp(JoinSp(row.Supplier, row.Title), row.Agency), row.ContractID)
        kw == ToLower(filters.Keyword)
        comp == ToLower(filters.Company)
        agency == ToLower(filters.Agency)
    IN  /\ ~(TrimSpace(filters.Source) # EmptyStr
             /\ normalizeSourceID(TrimSpace(filters.Source)) # normalizeSourceID(rowSource))
        /\ ~(filters.StartDate # ZeroTime /\ row.ReleaseEpoch < filters.StartDate)
        /\ ~(filters.EndDate # ZeroTime /\ row.ReleaseEpoch > filters.EndDate)
        /\ ~(kw # EmptyStr /\ ~Contains(ToLower(hay), kw))
        /\ ~(comp # EmptyStr /\ ~Contains(ToLower(row.Supplier), comp))
        /\ ~(agency # EmptyStr /\ ~Contains(ToLower(row.Agency), agency))

\* sumParquetFile: (total, matched, err)
sumParquetFile(files, path, filters) ==
    IF path \notin DOMAIN files THEN [total |-> 0, matched |-> FALSE, err |-> TRUE]
    ELSE IF ~files[path].complete THEN [total |-> 0, matched |-> FALSE, err |-> FALSE]
    ELSE LET rows == files[path].rows
             hits == { i \in 1..Len(rows) : rowMatches(rows[i], filters) }
             amounts == [i \in 1..Len(rows) |->
                            IF i \in hits THEN NewFromFloat(rows[i].Amount) ELSE 0]
         IN  [total |-> SumSeq(amounts), matched |-> hits # {}, err |-> FALSE]

\* the catalog rows queryTotals selects: source = ?, agency_key LIKE, company_key
\* LIKE and fy >= minFy
candidatePaths(catalog, filters, now) ==
    LET sourceKey == sanitizePartitionComponent(normalizeSourceID(filters.Source))
        minFy == financialYearLabel(now) - filters.LookbackPeriod
    IN  { path \in DOMAIN catalog :
            /\ catalog[path].source = sourceKey
            /\ (TrimSpace(filters.Agency) # EmptyStr =>
                   Contains(catalog[path].agency_key,
                            sanitizePartitionComponent(filters.Agency)))
            /\ (TrimSpace(filters.Company) # EmptyStr =>
                   Contains(catalog[path].company_key,
                            sanitizePartitionComponent(filters.Company)))
            /\ (filters.LookbackPeriod > 0 => catalog[path].fy >= minFy) }

\* dataLake.queryTotals: (total, matched)
RECURSIVE sumPaths(_, _, _)
sumPaths(files, paths, filters) ==
    IF paths = {} THEN [total |-> 0, matched |-> FALSE]
    ELSE LET p == CHOOSE x \in paths : TRUE
             inc == sumParquetFile(files, p, filters)
             rest == sumPaths(files, paths \ {p}, filters)
         IN  IF ~inc.err /\ inc.matched
             THEN [total |-> rest.total + inc.total, matched |-> TRUE]
             ELSE rest
queryTotals(files, catalog, filters, now) ==
    sumPaths(files, candidatePaths(catalog, filters, now), filters)

\* dataLake.hasMonthPartition: some part lies under source=/fy=/month= of ts
hasMonthPartition(files, source, ts, now) ==
    LET sourceKey == sanitizePartitionComponent(normalizeSourceID(source))
    IN  \E path \in DOMAIN files :
            /\ path.dir.source = sourceKey
            /\ path.dir.fy = financialYearLabel(ts)
            /\ path.dir.month = monthLabel(ts, now)

\* dataLake.shouldFetchWindow
shouldFetchWindow(files, source, win, now) == ~hasMonthPartition(files, source, win.start, now)

(***************************************************************************)
(* The federal source as RunSearch sees it, and the cache manager.         *)
(***************************************************************************)
\* accounting.FormatMoney with Symbol "$" and Precision 2: "$w.cc", a
\* negative amount as "-$w.cc"
formatMoneyDecimal(v) == [neg |-> v < 0, cents |-> IF v < 0 THEN 0 - v ELSE v]

\* parseMoneyToDecimal: the first numeric token -?\d+(\.\d+)?, which starts
\* after the "$", so a sign before the symbol is not part of it
parseMoneyToDecimal(s) == s.cents

defaultDateType ==
    <<"c","o","n","t","r","a","c","t","P","u","b","l","i","s","h","e","d">>

\* SearchRequest
Request(keyword, company, agency, start, end) ==
    [Keyword |-> keyword, Company |-> company, Agency |-> agency, Source |-> EmptyStr,
     StartDate |-> start, EndDate |-> end, DateType |-> defaultDateType,
     LookbackPeriod |-> 0]

\* GET findByDates/{dateType}/{start}/{end} of the OCDS API, all pages: the
\* published releases dated within [start, end]
DatedWithin(rel, win) ==
    win.start <= parseReleaseTime(rel.Date) /\ parseReleaseTime(rel.Date) <= win.end
fetchWindow(upstream, win) ==
    LET idx == { i \in 1..Len(upstream) : DatedWithin(upstream[i], win) }
        RECURSIVE pick(_)
        pick(i) == IF i > Len(upstream) THEN << >>
                   ELSE IF i \in idx THEN <<upstream[i]>> \o pick(i + 1) ELSE pick(i + 1)
    IN  pick(1)

RECURSIVE Perms(_)
Perms(S) ==
    IF S = {} THEN { << >> }
    ELSE UNION { { <<x>> \o p : p \in Perms(S \ {x}) } : x \in S }
DistinctSeqs(S) == UNION { Perms(T) : T \in SUBSET S }

\* how a run of fetchAll over the windows toFetch can go: the results reach
\* the receive loop in any order. "ok" consumes every window; "fatal" ends
\* at the first result carrying an error of the API (the last of order);
\* "timeout" is the deadline of runFederalSearch passing and "cancel" a
\* cancellation of the caller's context, each after the results of order
\* and with a window still outstanding
Schedules(toFetch) ==
    { [order |-> o, end |-> "ok"] : o \in Perms(toFetch) }
    \cup { [order |-> o, end |-> "fatal"] : o \in DistinctSeqs(toFetch) \ { << >> } }
    \cup { [order |-> o, end |-> e] :
             o \in DistinctSeqs(toFetch) \ Perms(toFetch), e \in {"timeout", "cancel"} }

\* the windows of a federal run and those its gate lets through
federalPlan(req, gated, files, now) ==
    LET lookback == resolveLookbackPeriod(req.LookbackPeriod)
        rd == resolveDates(req.StartDate, req.EndDate, lookback, now)
        windows == splitDateWindows(rd.start, rd.end, maxWindowDays)
    IN  [windows |-> windows,
         toFetch |-> { i \in 1..Len(windows) :
                          ~gated \/ shouldFetchWindow(files, req.Source, windows[i], now) }]

RECURSIVE processAll(_, _)
processAll(a, rels) ==
    IF rels = << >> THEN a ELSE processAll(process(a, Head(rels)), Tail(rels))

\* the receive loop of fetchAll under a schedule: the windows consumed, in
\* order, each handing its releases to consume
RECURSIVE consumeWindows(_, _, _, _)
consumeWindows(a, windows, order, upstream) ==
    IF order = << >> THEN a
    ELSE consumeWindows(processAll(a, fetchWindow(upstream, windows[Head(order)])),
                        windows, Tail(order), upstream)

\* ocdsClient.fetchAll: (err, aggregator). The receive loop returns the
\* first error that is not context.Canceled and nil when the channel closes
fetchAll(a, plan, upstream, sch) ==
    LET consumed == IF sch.end = "fatal"
                    THEN SubSeq(sch.order, 1, Len(sch.order) - 1) ELSE sch.order
    IN  [err |-> sch.end \in {"fatal", "timeout"},
         agg |-> consumeWindows(a, plan.windows, consumed, upstream),
         consumed |-> { plan.windows[consumed[k]] : k \in 1..Len(consumed) }]

\* runFederalSearch, reached through RunSearch and federalSource.Run:
\* (err, formatted total, handler calls, windows whose result was received,
\* windows whose releases were consumed)
runFederalSearch(req, hasSink, hasOnMatch, plan, upstream, sch) ==
    LET a0 == newContractAggregator(
                  [Keyword |-> req.Keyword, Company |-> req.Company,
                   Agency |-> req.Agency, Source |-> normalizeSourceID(req.Source)],
                  hasSink, hasOnMatch)
        out == fetchAll(a0, plan, upstream, sch)
    IN  [err |-> out.err,
         end |-> sch.end,
         total |-> formatMoneyDecimal(IF out.err THEN 0 ELSE total(out.agg)),
         calls |-> out.agg.calls,
         requested |-> { plan.windows[sch.order[k]] : k \in 1..Len(sch.order) },
         consumed |-> out.consumed]

\* cacheKey
cacheKey(keyword, company, agency, dateType, source) ==
    <<normalizeSourceID(source), keyword, company, agency, dateType>>

\* cacheManager.loadCheckpoint: the zero time when the key has no row
loadCheckpoint(checkpoints, key) ==
    IF key \in DOMAIN checkpoints THEN checkpoints[key] ELSE ZeroTime

\* cacheManager.saveCheckpoint: INSERT ... ON CONFLICT(key) DO UPDATE SET
\* last_run = excluded.last_run
saveCheckpoint(checkpoints, key, t) == MapPut(checkpoints, key, t)

\* cacheManager.queryCache
queryCache(files, catalog, filters, now) ==
    queryTotals(files, catalog,
                [filters EXCEPT !.Source = normalizeSourceID(filters.Source)], now)

\* windowsCached
windowsCached(files, source, start, end, now) ==
    LET ws == splitDateWindows(start, end, maxWindowDays)
    IN  \A i \in 1..Len(ws) :
            ~shouldFetchWindow(files, normalizeSourceID(source), ws[i], now)

\* the writes the OnAnyMatch and OnMatch handlers of RunSearchWithCache make
\* to the writer pool, in call order
RECURSIVE writeCalls(_, _, _, _, _)
writeCalls(pool, files, calls, now, stamp) ==
    IF calls = << >> THEN [pool |-> pool, files |-> files]
    ELSE LET w == poolWrite(pool, files, Head(calls).summary, now, stamp)
         IN  writeCalls(w.pool, w.files, Tail(calls), now, stamp)

\* RunSearchWithCache up to the decision to run the source
cachePre(files, catalog, checkpoints, req, now) ==
    LET resolvedSource == normalizeSourceID(req.Source)
        key == cacheKey(req.Keyword, req.Company, req.Agency, req.DateType, resolvedSource)
        lastRun == loadCheckpoint(checkpoints, key)
        lookback == resolveLookbackPeriod(req.LookbackPeriod)
        rd == resolveDates(req.StartDate, req.EndDate, lookback, now)
        workingReq == [req EXCEPT !.Source = resolvedSource, !.StartDate = rd.start,
                                  !.EndDate = rd.end, !.LookbackPeriod = lookback]
        q == queryCache(files, catalog, workingReq, now)
        searchStart == IF lastRun # ZeroTime /\ lastRun > rd.start /\ lastRun < rd.end
                       THEN lastRun ELSE rd.start
    IN  [key |-> key, lastRun |-> lastRun, cachedTotal |-> q.total, cacheHit |-> q.matched,
         short |-> q.matched /\ windowsCached(files, resolvedSource, rd.start, rd.end, now),
         endResolved |-> rd.end,
         runReq |-> [req EXCEPT !.Source = resolvedSource, !.StartDate = searchStart,
                                !.EndDate = rd.end, !.LookbackPeriod = lookback]]

(***************************************************************************)
(* The state sources (NSW, VIC, SA, WA): a scraped row becomes a           *)
(* MatchSummary, is de-duplicated by its contract id, handed to            *)
(* OnAnyMatch, tested by matchesSummaryFilters and, if it passes, handed   *)
(* to OnMatch and added to the total.                                      *)
(***************************************************************************)
\* matchesSummaryFilters
matchesSummaryFilters(req, summary, endDate) ==
    LET keyword == ToLower(TrimSpace(req.Keyword))
        hay == ToLower(JoinSp(JoinSp(JoinSp(summary.ContractID, summary.Title),
                                     summary.Supplier), summary.Agency))
        company == ToLower(TrimSpace(req.Company))
        agency == ToLower(TrimSpace(req.Agency))
        upper == IF endDate # ZeroTime THEN endDate ELSE req.EndDate
    IN  /\ ~(keyword # EmptyStr /\ ~Contains(hay, keyword))
        /\ ~(company # EmptyStr /\ ~Contains(ToLower(summary.Supplier), company))
        /\ ~(agency # EmptyStr /\ ~Contains(ToLower(summary.Agency), agency))
        /\ ~(req.StartDate # ZeroTime /\ summary.ReleaseDate < req.StartDate)
        /\ ~(/\ req.EndDate # ZeroTime
             /\ summary.ReleaseDate > req.EndDate
             /\ (upper = ZeroTime \/ upper > req.EndDate))

\* a scraped row: the summary built from it and the end of its contract period
Row(summary, periodEnd) == [summary |-> summary, periodEnd |-> periodEnd]

\* a bag of contract ids: how often each was handed to a callback
BagAdd(bag, id) ==
    [x \in (DOMAIN bag) \cup {id} |->
        IF x = id THEN (IF id \in DOMAIN bag THEN bag[id] ELSE 0) + 1 ELSE bag[x]]

(***************************************************************************)
(* Inputs of the aggregator: the releases a federal window can deliver.    *)
(***************************************************************************)
sAudit == <<"A","u","d","i","t">>
sCNACT == <<"C","N","-","A","C","T">>

PartiesOf(supplier) == <<Party(supplier, <<sSupplier>>), Party(sATO, <<sBuyer>>)>>

AmountOf(id, date, supplier) ==
    100 * date + (IF supplier = sKPMG THEN 10 ELSE 20)
        + (IF id = sCN1 THEN 1 ELSE IF id = sCN1A1 THEN 2 ELSE 3)

\* a contract release, or for an id with an amendment suffix an amendment
\* release carrying the amended value
PlainRelease(id, date, supplier) ==
    IF id = sCN1A1
    THEN Release(<<"r">>, date, <<sContractAmendment>>, PartiesOf(supplier),
             <<Contract(id, sAudit, FALSE, 0,
                        <<Amendment(sCN1, AmountOf(id, date, supplier), 0)>>)>>)
    ELSE Release(<<"r">>, date, <<sContract>>, PartiesOf(supplier),
             <<Contract(id, sAudit, TRUE, AmountOf(id, date, supplier), << >>)>>)

PlainReleases ==
    { PlainRelease(sCN1, 1, sKPMG), PlainRelease(sCN1, 2, sKPMG),
      PlainRelease(sCN1A1, 2, sKPMG), PlainRelease(sCN1, 2, sAcme),
      PlainRelease(sCN2, 1, sKPMG) }

\* releases the aggregator has to reject, and the remaining value shapes
OddReleases ==
    { Release(<<"r">>, 2, <<sTender>>, PartiesOf(sKPMG),
          <<Contract(sCN2, sAudit, TRUE, 500, << >>)>>),
      Release(<<"r">>, 2, <<sContract>>, PartiesOf(sKPMG),
          <<Contract(sCN2, sAudit, TRUE, 0, << >>)>>),
      Release(<<"r">>, 2, <<sContract>>, PartiesOf(sKPMG), << >>),
      Release(<<"r">>, -1, <<sContract>>, PartiesOf(sKPMG),
          <<Contract(sCN2, sAudit, TRUE, 700, << >>)>>),
      Release(<<"r">>, 2, <<sContractAmendment>>, PartiesOf(sAcme),
          <<Contract(sCN1A1, sAudit, TRUE, 300, <<Amendment(sCN1, 0, 40)>>)>>),
      \* no contract id, the first amendment's id stands in; tagged contract
      \* only, though an amendment with an amended value is attached
      Release(<<"r">>, 3, <<sContract>>, PartiesOf(sKPMG),
          <<Contract(EmptyStr, sAudit, TRUE, 250, <<Amendment(sCN1A1, 900, 0)>>)>>),
      \* an id holding "-A" that is no amendment suffix; an amendment that
      \* carries neither value
      Release(<<"r">>, 1, <<sContractAmendment>>, PartiesOf(sKPMG),
          <<Contract(sCNACT, sAudit, TRUE, 450, <<Amendment(sCNACT, 0, 0)>>)>>),
      \* no contract id and no amendment
      Release(<<"r">>, 1, <<sContract>>, PartiesOf(sKPMG),
          <<Contract(EmptyStr, sAudit, TRUE, 600, << >>)>>),
      \* an amended value of zero and an amendment value below it
      Release(<<"r">>, 3, <<sContractAmendment>>, PartiesOf(sKPMG),
          <<Contract(sCN2, sAudit, TRUE, 800, <<Amendment(sCN2, 0, -900)>>)>>) }

AggReleases == PlainReleases \cup OddReleases

\* the request filters and handlers an aggregator is created with
AggSetups ==
    { [filters |-> Filters(EmptyStr, EmptyStr, EmptyStr), hasSink |-> FALSE],
      [filters |-> Filters(EmptyStr, skpmg, EmptyStr), hasSink |-> TRUE] }

(***************************************************************************)
(* Inputs of the cache: what the OCDS API publishes and what is asked.     *)
(***************************************************************************)
\* number of RunSearchWithCache / cache command calls in a behaviour
MaxCalls == 2
\* seconds of the clock that names the parts (part-<unix seconds>.parquet)
MaxClock == 1
\* the current day (time.Now), 2024-10-26
TodayDay == 300

Today == 2 * TodayDay + 1
Midnight(day) == 2 * day
Noon(day) == 2 * day + 1

FeedRelease(id, day, supplier, amount) ==
    IF id = sCN1A1
    THEN Release(<<"r">>, Noon(day), <<sContractAmendment>>, PartiesOf(supplier),
             <<Contract(id, sAudit, FALSE, 0, <<Amendment(sCN1, amount, 0)>>)>>)
    ELSE Release(<<"r">>, Noon(day), <<sContract>>, PartiesOf(supplier),
             <<Contract(id, sAudit, TRUE, amount, << >>)>>)

\* the releases the API publishes, in publication order: two contracts of
\* January, then an amendment of the first in February
Feed ==
    << FeedRelease(sCN1, 15, sKPMG, 10000),
       FeedRelease(sCN2, 20, sAcme, 7000),
       FeedRelease(sCN1A1, 41, sKPMG, 15000) >>

\* requested ranges: January (one window), January to 3 March (two windows)
Ranges == { [start |-> Midnight(1), end |-> Midnight(32)],
            [start |-> Midnight(1), end |-> Midnight(63)] }

\* requests of RunSearchWithCache: everything over either range, and the
\* company kpmg over the longer one
Requests ==
    { Request(EmptyStr, EmptyStr, EmptyStr, r.start, r.end) : r \in Ranges }
    \cup { Request(EmptyStr, skpmg, EmptyStr, Midnight(1), Midnight(63)) }

\* flags of the cache command: --start-date and --end-date of January, no
\* filters (priming the lake), --no-cache absent
CacheFlags == { Request(EmptyStr, EmptyStr, EmptyStr, Midnight(1), Midnight(32)) }

(***************************************************************************)
(* State.                                                                  *)
(***************************************************************************)
VARIABLES
    agg,          \* the contractAggregator of one federal run
    processed,    \* the releases handed to agg.process so far, in order
    lakeFiles,    \* the parts under {cacheDir}/lake: path -> [complete, rows]
    catalog,      \* table parquet_files: path -> row
    checkpoints,  \* table checkpoints: key -> last_run
    indexFresh,   \* index.last exists and is younger than indexRebuildInterval
    clock,        \* time.Now().Unix(), the second that names new parts
    published,    \* how many releases of Feed the OCDS API has published
    history,      \* the calls made so far with what they returned
    worker,       \* fetchAll: window -> [pc, err] of the goroutine fetching it
    sem,          \* fetchAll: how many workers hold a slot of sem
    limit,        \* fetchAll: c.concurrencyLimit(), the capacity of sem
    ctxErr,       \* fetchAll: ctx.Err() of the context derived by WithCancel
    parentErr,    \* the Err() of the context runFederalSearch hands to fetchAll
    resCh,        \* fetchAll: the results buffered in resCh
    resClosed,    \* fetchAll: close(resCh) has run
    fetchRet,     \* what fetchAll returned, "running" before it returns
    httpSent,     \* the windows whose GET went out to the API
    leftAtAbort,  \* the windows still being fetched when the parent context ended
    progress,     \* fetchAll: the calls of onProgress, in order
    sourceRegistry, \* the package-level map sourceRegistry: id -> source
    caller,       \* goroutine -> where its RunSearch call stands
    crashed,      \* the runtime ended the process with a fatal error
    applied,      \* the last call of a pure function: its arguments and result
    attempt,      \* doRequest: the loop variable attempt
    backoff,      \* doRequest: the variable backoff, in seconds
    lastErr,      \* doRequest: the variable lastErr
    reqPc,        \* doRequest: about to send, sleeping, or returned
    reqRet,       \* doRequest: what it returned, <<"running">> before
    reqCtx,       \* doRequest: ctx.Err() of its context
    reqLog,       \* doRequest: the requests sent and sleeps made, in order
    nswPc,        \* runNswWithCollyParallel: goroutine -> where it stands
    nswLoaded,    \* goroutine -> the value its atomic.LoadInt32(&completed) read
    nswCompleted, \* runNswWithCollyParallel: the counter completed
    nswSem,       \* runNswWithCollyParallel: how many workers hold a slot of sem
    nswCtxDone,   \* runNswWithCollyParallel: cancel() has run
    nswFirstErr,  \* runNswWithCollyParallel: the variable firstErr
    nswCalls,     \* the calls of req.OnProgress, in the order they were made
    nswRow,       \* worker -> the index of the row its collector handles next
    nswSeen,      \* runNswWithCollyParallel: the keys of shared.seen
    nswTotal,     \* runNswWithCollyParallel: shared.total
    nswAny,       \* contract id -> how often req.OnAnyMatch was called with it
    nswMatch,     \* contract id -> how often req.OnMatch was called with it
    wr,           \* a state-source run under RunSearchWithCache: where it stands
    wrPool,       \* the lakeWriterPool of the run
    wrOut         \* what the run did so far: callbacks, total, gates, write errors

aggVars == <<agg, processed>>
cacheVars == <<lakeFiles, catalog, checkpoints, indexFresh, clock, published, history>>
fetchVars == <<worker, sem, limit, ctxErr, parentErr, resCh, resClosed, fetchRet,
               httpSent, leftAtAbort, progress>>
regVars == <<sourceRegistry, caller, crashed>>
reqVars == <<attempt, backoff, lastErr, reqPc, reqRet, reqCtx, reqLog>>
nswVars == <<nswPc, nswLoaded, nswCompleted, nswSem, nswCtxDone, nswFirstErr, nswCalls,
             nswRow, nswSeen, nswTotal, nswAny, nswMatch>>
writeVars == <<wr, wrPool, wrOut>>
moreVars == <<applied, reqVars, nswVars, writeVars>>
vars == <<agg, processed, lakeFiles, catalog, checkpoints, indexFresh, clock,
          published, history, worker, sem, limit, ctxErr, parentErr, resCh,
          resClosed, fetchRet, httpSent, leftAtAbort, progress, sourceRegistry, caller, crashed,
          applied, attempt, backoff, lastErr, reqPc, reqRet, reqCtx, reqLog,
          nswPc, nswLoaded, nswCompleted, nswSem, nswCtxDone, nswFirstErr, nswCalls,
          nswRow, nswSeen, nswTotal, nswAny, nswMatch, wr, wrPool, wrOut>>

\* the parts of the state a specification does not use stay as they are here
AggIdle == agg = << >> /\ processed = << >>
CacheIdle ==
    /\ lakeFiles = << >> /\ catalog = << >> /\ checkpoints = << >>
    /\ indexFresh = FALSE /\ clock = 0 /\ published = 0 /\ history = << >>
FetchIdle ==
    /\ worker = << >> /\ sem = 0 /\ limit = 0 /\ ctxErr = "nil" /\ parentErr = "nil"
    /\ resCh = << >> /\ resClosed = FALSE /\ fetchRet = "running"
    /\ httpSent = {} /\ leftAtAbort = {} /\ progress = << >>
RegIdle == sourceRegistry = << >> /\ caller = << >> /\ crashed = FALSE
PureIdle == applied = << >>
ReqIdle ==
    /\ attempt = 0 /\ backoff = 0 /\ lastErr = <<"nil">> /\ reqPc = "done"
    /\ reqRet = <<"running">> /\ reqCtx = "nil" /\ reqLog = << >>
NswIdle ==
    /\ nswPc = << >> /\ nswLoaded = << >> /\ nswCompleted = 0 /\ nswSem = 0
    /\ nswCtxDone = FALSE /\ nswFirstErr = "nil" /\ nswCalls = << >>
    /\ nswRow = << >> /\ nswSeen = {} /\ nswTotal = 0 /\ nswAny = << >> /\ nswMatch = << >>
WriteIdle == wr = << >> /\ wrPool = << >> /\ wrOut = << >>
MoreIdle == PureIdle /\ ReqIdle /\ NswIdle /\ WriteIdle

(***************************************************************************)
(* Specification of the aggregator: releases arrive in any order.          *)
(***************************************************************************)
Init ==
    /\ \E s \in AggSetups : agg = newContractAggregator(s.filters, s.hasSink, TRUE)
    /\ processed = << >>
    /\ CacheIdle /\ FetchIdle /\ RegIdle /\ MoreIdle

\* one call of agg.process(rel)
Process ==
    /\ Len(processed) < MaxReleases
    /\ \E rel \in AggReleases :
           /\ agg' = process(agg, rel)
           /\ processed' = Append(processed, rel)
    /\ UNCHANGED <<cacheVars, fetchVars, regVars, moreVars>>

Next == Process

Spec == Init /\ [][Next]_vars

(***************************************************************************)
(* Specification of the cache: calls of RunSearchWithCache and of the      *)
(* cache command against one cache directory, while the API publishes      *)
(* releases and time passes.                                               *)
(***************************************************************************)
InitCache ==
    /\ lakeFiles = << >>
    /\ catalog = << >>
    /\ checkpoints = << >>
    /\ indexFresh = FALSE
    /\ clock = 0
    \* the contracts of January are out, the amendment of February is not
    /\ published = Len(Feed) - 1
    /\ history = << >>
    /\ AggIdle /\ FetchIdle /\ RegIdle /\ MoreIdle

Upstream == SubSeq(Feed, 1, published)

\* what a call returned: the formatted total, cacheHit and the error, with
\* how the source run ended ("none" when it did not run), the windows whose
\* result it received, those whose releases it consumed, and how much of
\* the feed was published
Returned(op, req, end, err, money, hit, requested, consumed) ==
    [op |-> op, req |-> req, end |-> end, err |-> err, total |-> money,
     hit |-> hit, requested |-> requested, consumed |-> consumed,
     published |-> published]

\* the API publishes the next release
Publish ==
    /\ published < Len(Feed)
    /\ published' = published + 1
    /\ UNCHANGED <<lakeFiles, catalog, checkpoints, indexFresh, clock, history>>
    /\ UNCHANGED <<aggVars, fetchVars, regVars, moreVars>>

\* a second passes; one that named no part passes unobserved
Tick ==
    /\ clock < MaxClock
    /\ \E path \in DOMAIN lakeFiles : path.stamp = clock
    /\ clock' = clock + 1
    /\ UNCHANGED <<lakeFiles, catalog, checkpoints, indexFresh, published, history>>
    /\ UNCHANGED <<aggVars, fetchVars, regVars, moreVars>>

\* indexRebuildInterval passes since index.last was written
MarkerExpires ==
    /\ indexFresh
    /\ indexFresh' = FALSE
    /\ UNCHANGED <<lakeFiles, catalog, checkpoints, clock, published, history>>
    /\ UNCHANGED <<aggVars, fetchVars, regVars, moreVars>>

\* a short circuit that saved the checkpoint like a completed run
SearchShortCircuit_SavesCheckpoint(req, pre) ==
    /\ history' = Append(history,
           Returned("search", req, "none", FALSE, formatMoneyDecimal(pre.cachedTotal),
                    TRUE, {}, {}))
    /\ checkpoints' = saveCheckpoint(checkpoints, pre.key, pre.endResolved)
    /\ UNCHANGED <<lakeFiles, catalog, indexFresh>>

\* RunSearchWithCache returning the cached total (cache.go:166-168)
SearchShortCircuit(req, pre) ==
    /\ history' = Append(history,
           Returned("search", req, "none", FALSE, formatMoneyDecimal(pre.cachedTotal),
                    TRUE, {}, {}))
    /\ UNCHANGED <<lakeFiles, catalog, checkpoints, indexFresh>>

\* RunSearchWithCache after an error of the source (cache.go:209-211): the
\* writers are left open, their parts stay 0 bytes long
SearchFailed(req, pre, run, written) ==
    /\ lakeFiles' = written.files
    /\ history' = Append(history,
           Returned("search", req, run.end, TRUE, formatMoneyDecimal(0),
                    pre.cacheHit, run.requested, run.consumed))
    /\ UNCHANGED <<catalog, checkpoints, indexFresh>>

\* the end of RunSearchWithCache after a source run without error
\* (cache.go:213-233): close the writers, reindex when the marker is stale,
\* add the totals, save the checkpoint
SearchFinish(req, pre, run, written) ==
    \E closed \in {closeAll(written.pool, written.files, catalog, clock)} :
        LET reindex == ~indexFresh
            \* filepath.WalkDir fails on a lake directory that was never created
            reindexFails == reindex /\ DOMAIN closed.files = {}
            combined == pre.cachedTotal + parseMoneyToDecimal(run.total)
        IN  /\ lakeFiles' = closed.files
            /\ catalog' = IF reindex
                          THEN rebuildIndex(closed.files, closed.catalog,
                                            run.end = "cancel", clock)
                          ELSE closed.catalog
            /\ indexFresh' = IF reindex /\ ~reindexFails THEN TRUE ELSE indexFresh
            /\ checkpoints' = IF reindexFails THEN checkpoints
                              ELSE saveCheckpoint(checkpoints, pre.key, pre.endResolved)
            /\ history' = Append(history,
                   IF reindexFails
                   THEN Returned("search", req, run.end, TRUE, formatMoneyDecimal(0),
                                 pre.cacheHit, run.requested, run.consumed)
                   ELSE Returned("search", req, run.end, FALSE,
                                 formatMoneyDecimal(combined), pre.cacheHit,
                                 run.requested, run.consumed))

\* RunSearchWithCache running the source (cache.go:170-211); OnMatch and
\* OnAnyMatch both write to the pool
SearchIncremental(req, pre) ==
    \E plan \in {federalPlan(pre.runReq, TRUE, lakeFiles, Today)} :
    \E sch \in Schedules(plan.toFetch) :
    \E run \in {runFederalSearch(pre.runReq, TRUE, TRUE, plan, Upstream, sch)} :
    \E written \in {writeCalls(newLakeWriterPool, lakeFiles, run.calls, Today, clock)} :
        IF run.err THEN SearchFailed(req, pre, run, written)
        ELSE SearchFinish(req, pre, run, written)

\* one call of RunSearchWithCache with the cache enabled
RunSearchWithCache ==
    /\ Len(history) < MaxCalls
    /\ \E req \in Requests :
       \E pre \in {cachePre(lakeFiles, catalog, checkpoints, req, Today)} :
           IF pre.short THEN SearchShortCircuit(req, pre)
           ELSE SearchIncremental(req, pre)
    /\ UNCHANGED <<clock, published>>
    /\ UNCHANGED <<aggVars, fetchVars, regVars, moreVars>>

\* cacheCmd.RunE up to the source run (cache.go:73-91): the checkpoint key
\* and the start the run resumes from
cachePlan(cps, flags) ==
    LET source == normalizeSourceID(flags.Source)
        key == cacheKey(flags.Keyword, flags.Company, flags.Agency, flags.DateType, source)
        resumeFrom == loadCheckpoint(cps, key)
        start == IF resumeFrom # ZeroTime
                    /\ (flags.StartDate = ZeroTime \/ resumeFrom > flags.StartDate)
                 THEN resumeFrom ELSE flags.StartDate
    IN  [key |-> key,
         runReq |-> [flags EXCEPT !.Source = source, !.StartDate = start,
                                  !.LookbackPeriod = defaultLookbackPeriod]]

\* the cache command (cacheCmd.RunE, cache.go:93-125): run the source under
\* context.Background with OnAnyMatch writing to the pool, close the
\* writers, reindex when the marker is stale, and save the checkpoint when
\* the run returned no error
CacheCommand ==
    /\ Len(history) < MaxCalls
    /\ \E flags \in CacheFlags :
       \E cp \in {cachePlan(checkpoints, flags)} :
       \E plan \in {federalPlan(cp.runReq, TRUE, lakeFiles, Today)} :
       \E sch \in { s \in Schedules(plan.toFetch) : s.end # "cancel" } :
       \E run \in {runFederalSearch(cp.runReq, TRUE, FALSE, plan, Upstream, sch)} :
       \E written \in {writeCalls(newLakeWriterPool, lakeFiles, run.calls, Today, clock)} :
       \E closed \in {closeAll(written.pool, written.files, catalog, clock)} :
           LET reindex == ~indexFresh
               reindexFails == reindex /\ DOMAIN closed.files = {}
               failed == reindexFails \/ run.err
           IN  /\ lakeFiles' = closed.files
               /\ catalog' = IF reindex
                             THEN rebuildIndex(closed.files, closed.catalog, FALSE, clock)
                             ELSE closed.catalog
               /\ indexFresh' = IF reindex /\ ~reindexFails THEN TRUE ELSE indexFresh
               /\ checkpoints' = IF failed THEN checkpoints
                                 ELSE saveCheckpoint(checkpoints, cp.key,
                                          IF flags.EndDate = ZeroTime THEN Today
                                          ELSE flags.EndDate)
               /\ history' = Append(history,
                      Returned("cache", flags, run.end, failed, formatMoneyDecimal(0),
                               FALSE, run.requested, run.consumed))
    /\ UNCHANGED <<clock, published>>
    /\ UNCHANGED <<aggVars, fetchVars, regVars, moreVars>>

NextCache == Publish \/ Tick \/ MarkerExpires \/ RunSearchWithCache \/ CacheCommand

SpecCache == InitCache /\ [][NextCache]_vars
(***************************************************************************)
(* Specification of the lake alone: summaries are written through writer   *)
(* pools, as the handlers of RunSearchWithCache write them; history keeps   *)
(* what each pool was given.                                               *)
(***************************************************************************)
\* number of writer pools opened, written and closed in a behaviour
MaxPools == 2

\* MatchSummary as a source emits it
Summary(source, id, supplier, amount, releaseDate) ==
    [Source |-> source, ContractID |-> id, ReleaseID |-> <<"r">>, Supplier |-> supplier,
     Agency |-> sATO, Title |-> sAudit, Amount |-> amount, ReleaseDate |-> releaseDate,
     IsUpdate |-> FALSE]

\* the summaries written: federal ones of January and of July 2024, one of
\* another source, and one whose release date did not parse (the zero time)
LakeSummaries ==
    { Summary(sFederal, sCN1, sKPMG, 10000, Noon(15)),
      Summary(sFederal, sCN2, sAcme, 7000, Noon(200)),
      Summary(<<"v","i","c">>, sCN1, sKPMG, 3000, Noon(15)),
      Summary(sFederal, sCN2, sKPMG, 500, ZeroTime) }

InitLake ==
    /\ lakeFiles = << >>
    /\ catalog = << >>
    /\ clock = 0
    /\ checkpoints = << >> /\ indexFresh = FALSE /\ published = 0 /\ history = << >>
    /\ AggIdle /\ FetchIdle /\ RegIdle /\ MoreIdle

\* one writer pool: newLakeWriterPool, pool.write of one or two summaries,
\* pool.closeAll
PoolSession ==
    /\ Len(history) < MaxPools
    /\ \E first \in LakeSummaries, more \in {<< >>} \cup { <<ms>> : ms \in LakeSummaries } :
       \E w \in { writeCalls(newLakeWriterPool, lakeFiles,
                             <<Call("any", first)>> \o [i \in 1..Len(more) |->
                                                          Call("any", more[i])],
                             Today, clock) } :
       \E closed \in { closeAll(w.pool, w.files, catalog, clock) } :
           /\ lakeFiles' = closed.files
           /\ catalog' = closed.catalog
           /\ history' = Append(history, <<first>> \o more)
    /\ UNCHANGED <<checkpoints, indexFresh, clock, published>>
    /\ UNCHANGED <<aggVars, fetchVars, regVars, moreVars>>

\* a second passes between two pools
LakeTick ==
    /\ clock < MaxClock
    /\ \E path \in DOMAIN lakeFiles : path.stamp = clock
    /\ clock' = clock + 1
    /\ UNCHANGED <<lakeFiles, catalog, checkpoints, indexFresh, published, history>>
    /\ UNCHANGED <<aggVars, fetchVars, regVars, moreVars>>

NextLake == PoolSession \/ LakeTick

SpecLake == InitLake /\ [][NextLake]_vars

(***************************************************************************)
(* Specification of one federal run at the level of its goroutines:        *)
(* ocdsClient.fetchAll with one worker per window, the semaphore sem, the  *)
(* channel resCh, the context derived by WithCancel and the receive loop,  *)
(* under a parent context that the caller may cancel and that the timeout  *)
(* of runFederalSearch may end.                                            *)
(***************************************************************************)
\* the windows of a run
MaxWindows == 2
\* the cores that determineDefaultConcurrency leaves to the workers
MaxConcurrent == 2

\* what the API holds for window i: one release of a contract
WindowFeed(i) ==
    << FeedRelease(IF i % 2 = 1 THEN sCN1 ELSE sCN2, 15 + 31 * (i - 1), sKPMG, 1000 * i) >>

Windows == DOMAIN worker
At(i, pc) == worker[i].pc = pc
Goto(i, pc, err) == worker' = [worker EXCEPT ![i].pc = pc, ![i].err = err]

\* cancel() of the derived context: the first cause stays
cancelled(err) == IF err = "nil" THEN "canceled" ELSE err

\* ocdsClient.concurrencyLimit
concurrencyLimit(maxConcurrent) == IF maxConcurrent <= 0 THEN 1 ELSE maxConcurrent

\* a semaphore that always takes another send
semHasRoom_Unbounded(held, capacity) == TRUE

\* sem <- struct{}{} on make(chan struct{}, capacity): the send proceeds
\* while the buffer is not full
semHasRoom(held, capacity) == held < capacity

\* a channel made with room for one result less than there are windows
resChHasRoom_OneLess(buffered, windows) == Len(buffered) < windows - 1

\* resCh <- result{...} on make(chan result, len(windows)): the send
\* proceeds while the buffer is not full
resChHasRoom(buffered, windows) == Len(buffered) < windows

\* what the gate says of each of n windows: "none" when the request has no
\* ShouldFetchWindow, else "fetch" or "skip" for each window
GateChoices(n) == {[i \in 1..n |-> "none"]} \cup [1..n -> {"fetch", "skip"}]

\* a loop that starts a worker for every window
startsWorker_IgnoresGate(gate) == TRUE

\* if shouldFetch != nil && !shouldFetch(window) { ...; continue }
startsWorker(gate) == ~(gate # "none" /\ gate = "skip")

\* notifyProgress(completed) after completed++
notifyProgress(calls, totalWindows) ==
    LET completed == IF calls = << >> THEN 0 ELSE calls[Len(calls)].completed
    IN  Append(calls, [completed |-> completed + 1, total |-> totalWindows])

\* the calls of onProgress the loop over the windows makes for the windows
\* it skips
RECURSIVE skipCalls(_, _, _)
skipCalls(gates, i, calls) ==
    IF i > Len(gates) THEN calls
    ELSE skipCalls(gates, i + 1,
                   IF startsWorker(gates[i]) THEN calls
                   ELSE notifyProgress(calls, Len(gates)))

\* fetchAll up to the receive loop: the loop over the windows has started a
\* worker for each window it does not skip
InitFetch ==
    /\ \E n \in 1..MaxWindows : \E gates \in GateChoices(n) :
           /\ worker = [i \in 1..n |->
                           [pc |-> IF startsWorker(gates[i]) THEN "select" ELSE "skipped",
                            err |-> "nil", gate |-> gates[i]]]
           /\ progress = skipCalls(gates, 1, << >>)
    /\ \E maxConcurrent \in 0..MaxConcurrent : limit = concurrencyLimit(maxConcurrent)
    /\ sem = 0
    /\ ctxErr = "nil" /\ parentErr = "nil"
    /\ resCh = << >> /\ resClosed = FALSE
    /\ fetchRet = "running"
    /\ httpSent = {} /\ leftAtAbort = {}
    /\ agg = newContractAggregator(Filters(EmptyStr, EmptyStr, EmptyStr), FALSE, FALSE)
    /\ processed = << >>
    /\ CacheIdle /\ RegIdle /\ MoreIdle

\* the windows whose worker has not finished its fetch
Fetching == { i \in Windows : worker[i].pc \in {"select", "acquired", "inflight"} }

\* the caller cancels the parent context; the derived context takes the
\* error unless it was cancelled before
CallerCancels ==
    /\ parentErr = "nil" /\ fetchRet = "running"
    /\ parentErr' = "canceled"
    /\ ctxErr' = cancelled(ctxErr)
    /\ leftAtAbort' = Fetching
    /\ UNCHANGED <<worker, sem, limit, resCh, resClosed, fetchRet, httpSent, progress>>
    /\ UNCHANGED <<aggVars, cacheVars, regVars, moreVars>>

\* the timeout of runFederalSearch (context.WithTimeout) passes
TimeoutPasses ==
    /\ parentErr = "nil" /\ fetchRet = "running"
    /\ parentErr' = "deadline"
    /\ ctxErr' = IF ctxErr = "nil" THEN "deadline" ELSE ctxErr
    /\ leftAtAbort' = Fetching
    /\ UNCHANGED <<worker, sem, limit, resCh, resClosed, fetchRet, httpSent, progress>>
    /\ UNCHANGED <<aggVars, cacheVars, regVars, moreVars>>

\* select { case sem <- struct{}{}: ... }: the worker takes a slot; with
\* ctx.Done() ready as well the select picks either case
Acquire(i) ==
    /\ At(i, "select") /\ semHasRoom(sem, limit)
    /\ sem' = sem + 1
    /\ Goto(i, "acquired", "nil")
    /\ UNCHANGED <<limit, ctxErr, parentErr, resCh, resClosed, fetchRet, httpSent,
                   leftAtAbort, progress>>
    /\ UNCHANGED <<aggVars, cacheVars, regVars, moreVars>>

\* select { case <-ctx.Done(): resCh <- result{idx, err: ctx.Err()}; return }
AbortWait(i) ==
    /\ At(i, "select") /\ ctxErr # "nil"
    /\ resChHasRoom(resCh, Cardinality(Windows))
    /\ resCh' = Append(resCh, [idx |-> i, err |-> ctxErr])
    /\ Goto(i, "done", ctxErr)
    /\ UNCHANGED <<sem, limit, ctxErr, parentErr, resClosed, fetchRet, httpSent,
                   leftAtAbort, progress>>
    /\ UNCHANGED <<aggVars, cacheVars, regVars, moreVars>>

\* fetchWindow reaches httpClient.Do: the GET goes out under a live context;
\* under a context that is done the transport returns its error and sends
\* nothing. One request stands for the pages and retries of a window.
IssueRequest(i) ==
    /\ At(i, "acquired")
    /\ IF ctxErr = "nil"
       THEN /\ httpSent' = httpSent \cup {i}
            /\ Goto(i, "inflight", "nil")
       ELSE /\ httpSent' = httpSent
            /\ Goto(i, "send", ctxErr)
    /\ UNCHANGED <<sem, limit, ctxErr, parentErr, resCh, resClosed, fetchRet,
                   leftAtAbort, progress>>
    /\ UNCHANGED <<aggVars, cacheVars, regVars, moreVars>>

\* the window's releases arrive
FetchOK(i) ==
    /\ At(i, "inflight")
    /\ Goto(i, "send", "nil")
    /\ UNCHANGED <<sem, limit, ctxErr, parentErr, resCh, resClosed, fetchRet,
                   httpSent, leftAtAbort, progress>>
    /\ UNCHANGED <<aggVars, cacheVars, regVars, moreVars>>

\* the fetch fails with an error of the API (a status that is not retried,
\* retries used up, a body that does not decode): if err != nil { cancel() }
FetchFatal(i) ==
    /\ At(i, "inflight")
    /\ Goto(i, "send", "fatal")
    /\ ctxErr' = cancelled(ctxErr)
    /\ UNCHANGED <<sem, limit, parentErr, resCh, resClosed, fetchRet, httpSent,
                   leftAtAbort, progress>>
    /\ UNCHANGED <<aggVars, cacheVars, regVars, moreVars>>

\* the request in flight is aborted by the context: its error wraps ctx.Err()
FetchAborted(i) ==
    /\ At(i, "inflight") /\ ctxErr # "nil"
    /\ Goto(i, "send", ctxErr)
    /\ UNCHANGED <<sem, limit, ctxErr, parentErr, resCh, resClosed, fetchRet,
                   httpSent, leftAtAbort, progress>>
    /\ UNCHANGED <<aggVars, cacheVars, regVars, moreVars>>

\* resCh <- result{idx, rel, err}, then the deferred <-sem and wg.Done()
Send(i) ==
    /\ At(i, "send")
    /\ resChHasRoom(resCh, Cardinality(Windows))
    /\ resCh' = Append(resCh, [idx |-> i, err |-> worker[i].err])
    /\ sem' = sem - 1
    /\ Goto(i, "done", worker[i].err)
    /\ UNCHANGED <<limit, ctxErr, parentErr, resClosed, fetchRet, httpSent, leftAtAbort, progress>>
    /\ UNCHANGED <<aggVars, cacheVars, regVars, moreVars>>

\* go func() { wg.Wait(); close(resCh) }()
CloseResults ==
    /\ ~resClosed
    /\ \A i \in Windows : At(i, "done") \/ At(i, "skipped")
    /\ resClosed' = TRUE
    /\ UNCHANGED <<worker, sem, limit, ctxErr, parentErr, resCh, fetchRet, httpSent,
                   leftAtAbort, progress>>
    /\ UNCHANGED <<aggVars, cacheVars, regVars, moreVars>>

\* a mistaken test of the receive loop: any error ends the run
endsRun_AnyError(err) == err # "nil"

\* if res.err != nil && !errors.Is(res.err, context.Canceled) { return res.err }
endsRun(err) == err # "nil" /\ err # "canceled"

\* if res.err == nil { consume ...; completed++; notifyProgress(completed) }
countsResult(err) == err = "nil"

\* one turn of for res := range resCh: return the error, or consume the
\* releases of the window, or pass over a cancelled result; the deferred
\* cancel() runs at the return
Receive ==
    /\ fetchRet = "running" /\ resCh # << >>
    /\ resCh' = Tail(resCh)
    /\ LET res == Head(resCh)
       IN  IF endsRun(res.err)
           THEN /\ fetchRet' = res.err
                /\ ctxErr' = cancelled(ctxErr)
                /\ UNCHANGED <<agg, processed, progress>>
           ELSE IF countsResult(res.err)
           THEN /\ agg' = processAll(agg, WindowFeed(res.idx))
                /\ processed' = processed \o WindowFeed(res.idx)
                /\ progress' = notifyProgress(progress, Cardinality(Windows))
                /\ UNCHANGED <<fetchRet, ctxErr>>
           ELSE UNCHANGED <<fetchRet, ctxErr, agg, processed, progress>>
    /\ UNCHANGED <<worker, sem, limit, parentErr, resClosed, httpSent, leftAtAbort>>
    /\ UNCHANGED <<cacheVars, regVars, moreVars>>

\* the range over resCh ends: return nil
ReturnNil ==
    /\ fetchRet = "running" /\ resCh = << >> /\ resClosed
    /\ fetchRet' = "nil"
    /\ ctxErr' = cancelled(ctxErr)
    /\ UNCHANGED <<worker, sem, limit, parentErr, resCh, resClosed, httpSent, leftAtAbort, progress>>
    /\ UNCHANGED <<aggVars, cacheVars, regVars, moreVars>>

NextFetch ==
    \/ CallerCancels
    \/ TimeoutPasses
    \/ \E i \in Windows : Acquire(i)
    \/ \E i \in Windows : AbortWait(i)
    \/ \E i \in Windows : IssueRequest(i)
    \/ \E i \in Windows : FetchOK(i)
    \/ \E i \in Windows : FetchFatal(i)
    \/ \E i \in Windows : FetchAborted(i)
    \/ \E i \in Windows : Send(i)
    \/ CloseResults
    \/ Receive
    \/ ReturnNil

SpecFetch == InitFetch /\ [][NextFetch]_vars

\* the next step of the worker of window i: the select, the request, the end
\* of the request, the send of its result
WorkerStep(i) ==
    \/ Acquire(i) \/ AbortWait(i)
    \/ IssueRequest(i)
    \/ FetchOK(i) \/ FetchFatal(i) \/ FetchAborted(i)
    \/ Send(i)

\* the scheduling of the run: a goroutine that can take its next step takes
\* it (the workers, the goroutine that closes resCh, the receive loop), and
\* a request in flight ends, with a response, an error or the end of its
\* context (the client's Timeout, the bounded retries of doRequest). The
\* caller's cancel and the timeout of the run may never come.
FetchFairness ==
    /\ \A i \in 1..MaxWindows : WF_vars(i \in Windows /\ WorkerStep(i))
    /\ WF_vars(CloseResults)
    /\ WF_vars(Receive \/ ReturnNil)

SpecFetchLive == SpecFetch /\ FetchFairness

\* what runFederalSearch returns once fetchAll has: the error, or the
\* formatted total of the aggregator
federalReturn ==
    IF fetchRet = "nil"
    THEN [err |-> "nil", total |-> formatMoneyDecimal(total(agg))]
    ELSE [err |-> fetchRet, total |-> formatMoneyDecimal(0)]

(***************************************************************************)
(* Specification of the catalog: searches write parts and rows, the        *)
(* reindex-lake command rebuilds the table, parts are removed from the     *)
(* directory from outside; history keeps each operation.                   *)
(***************************************************************************)
\* number of searches, reindex commands and removals in a behaviour
MaxOps == 3

\* what the searches deliver: a federal contract of January 2024 and one of
\* July 2024
IndexSummaries ==
    { Summary(sFederal, sCN1, sKPMG, 10000, Noon(15)),
      Summary(sFederal, sCN2, sAcme, 7000, Noon(200)) }

InitIndex ==
    /\ lakeFiles = << >>
    /\ catalog = << >>
    /\ indexFresh = FALSE
    /\ clock = 0
    /\ checkpoints = << >> /\ published = 0 /\ history = << >>
    /\ AggIdle /\ FetchIdle /\ RegIdle /\ MoreIdle

\* how a call of RunSearchWithCache that ran the source can end
\* (cache.go:209-219): with the error of the source, or with the writers
\* closed and, when index.last is stale, the table rebuilt under the
\* caller's context, which may have ended by then
SearchEnds == {"error", "closed", "reindexed", "reindexed after ctx ended"}

\* the directory lake/ exists once a sink was created (os.MkdirAll)
lakeDirExists == \E i \in 1..Len(history) : history[i].op = "search"

\* RunSearchWithCache whose source run delivers one summary
IndexedSearch ==
    /\ Len(history) < MaxOps
    /\ \E ms \in IndexSummaries, how \in SearchEnds :
       \E w \in { writeCalls(newLakeWriterPool, lakeFiles, <<Call("any", ms)>>,
                             Today, clock) } :
       \E closed \in { closeAll(w.pool, w.files, catalog, clock) } :
           /\ (indexFresh => how \in {"error", "closed"})
           /\ lakeFiles' = IF how = "error" THEN w.files ELSE closed.files
           /\ catalog' =
                 CASE how = "error" -> catalog
                   [] how = "closed" -> closed.catalog
                   [] how = "reindexed" ->
                        rebuildIndex(closed.files, closed.catalog, FALSE, clock)
                   [] OTHER ->
                        rebuildIndex(closed.files, closed.catalog, TRUE, clock)
           /\ indexFresh' = (indexFresh \/ how \notin {"error", "closed"})
           /\ history' = Append(history, [op |-> "search", summary |-> ms, how |-> how])
    /\ UNCHANGED <<checkpoints, clock, published>>
    /\ UNCHANGED <<aggVars, fetchVars, regVars, moreVars>>

\* the reindex-lake command: rebuildIndex under context.Background();
\* filepath.WalkDir returns the error of a lake directory that was never
\* created, after the DELETE
ReindexLake ==
    /\ Len(history) < MaxOps
    /\ catalog' = IF lakeDirExists THEN rebuildIndex(lakeFiles, catalog, FALSE, clock)
                  ELSE << >>
    /\ history' = Append(history, [op |-> "reindex", err |-> ~lakeDirExists])
    /\ UNCHANGED <<lakeFiles, checkpoints, indexFresh, clock, published>>
    /\ UNCHANGED <<aggVars, fetchVars, regVars, moreVars>>

\* a part is removed from the lake directory
PartRemoved ==
    /\ Len(history) < MaxOps
    /\ \E path \in DOMAIN lakeFiles :
           /\ lakeFiles' = [p \in DOMAIN lakeFiles \ {path} |-> lakeFiles[p]]
           /\ history' = Append(history, [op |-> "remove", path |-> path])
    /\ UNCHANGED <<catalog, checkpoints, indexFresh, clock, published>>
    /\ UNCHANGED <<aggVars, fetchVars, regVars, moreVars>>

\* index.last grows older than indexRebuildInterval
IndexMarkerExpires ==
    /\ indexFresh
    /\ indexFresh' = FALSE
    /\ UNCHANGED <<lakeFiles, catalog, checkpoints, clock, published, history>>
    /\ UNCHANGED <<aggVars, fetchVars, regVars, moreVars>>

\* a second passes; one that stamped no row passes unobserved
IndexTick ==
    /\ clock < MaxClock
    /\ \E path \in DOMAIN catalog : catalog[path].created_at = clock
    /\ clock' = clock + 1
    /\ UNCHANGED <<lakeFiles, catalog, checkpoints, indexFresh, published, history>>
    /\ UNCHANGED <<aggVars, fetchVars, regVars, moreVars>>

NextIndex ==
    IndexedSearch \/ ReindexLake \/ PartRemoved \/ IndexMarkerExpires \/ IndexTick

SpecIndex == InitIndex /\ [][NextIndex]_vars

(***************************************************************************)
(* Specification of concurrent RunSearch calls: the goroutines of the HTTP *)
(* handlers share the package-level map sourceRegistry, which every call   *)
(* writes through ensureSourcesRegistered and reads through resolveSource, *)
(* with no lock.                                                           *)
(***************************************************************************)
\* the goroutines that call RunSearch
MaxGoroutines == 2

sVic == <<"v", "i", "c">>
sNsw == <<"n", "s", "w">>
sQld == <<"q", "l", "d">>

\* newFederalSource, newVicSource, newNswSource, in the order of
\* ensureSourcesRegistered; a source is known by its ID()
KnownSources == <<sFederal, sVic, sNsw>>

\* req.Source of the calls: absent, a registered source, an unknown one
RequestedSources == {EmptyStr, <<"V", "I", "C">>, sQld}

Goroutines == 1..MaxGoroutines

\* the map after the package's init(), which calls ensureSourcesRegistered
RegisteredAll == [id \in {KnownSources[k] : k \in 1..Len(KnownSources)} |-> id]

InitReg ==
    /\ sourceRegistry = RegisteredAll
    /\ caller = [g \in Goroutines |->
                    [pc |-> "idle", k |-> 0, source |-> EmptyStr, result |-> "none"]]
    /\ crashed = FALSE
    /\ AggIdle /\ CacheIdle /\ FetchIdle /\ MoreIdle

\* another goroutine is inside an assignment to the map
OtherWriting(g) == \E h \in Goroutines \ {g} : caller[h].pc = "writing"

\* an unsynchronized access that overlaps a write is a data race: the
\* runtime's check may end the process ("fatal error: concurrent map
\* writes", "concurrent map read and map write") or miss it
RaceOutcome(g) == IF OtherWriting(g) THEN crashed' \in {TRUE, FALSE} ELSE crashed' = FALSE

\* a handler calls RunSearch(ctx, req): ensureSourcesRegistered comes first
CallRunSearch(g) ==
    /\ ~crashed /\ caller[g].pc = "idle"
    /\ \E source \in RequestedSources :
           caller' = [caller EXCEPT ![g] = [pc |-> "register", k |-> 1,
                                            source |-> source, result |-> "none"]]
    /\ UNCHANGED <<sourceRegistry, crashed>>
    /\ UNCHANGED <<aggVars, cacheVars, fetchVars, moreVars>>

\* registerSource reaches sourceRegistry[id] = src: the assignment begins
BeginAssign(g) ==
    /\ ~crashed /\ caller[g].pc = "register"
    /\ caller' = [caller EXCEPT ![g].pc = "writing"]
    /\ RaceOutcome(g)
    /\ UNCHANGED sourceRegistry
    /\ UNCHANGED <<aggVars, cacheVars, fetchVars, moreVars>>

\* the assignment ends; the next source follows, resolveSource after the last
EndAssign(g) ==
    /\ ~crashed /\ caller[g].pc = "writing"
    /\ LET src == KnownSources[caller[g].k]
       IN  sourceRegistry' = MapPut(sourceRegistry, normalizeSourceID(src), src)
    /\ caller' = [caller EXCEPT ![g] =
                     IF caller[g].k < Len(KnownSources)
                     THEN [@ EXCEPT !.pc = "register", !.k = @ + 1]
                     ELSE [@ EXCEPT !.pc = "resolve"]]
    /\ RaceOutcome(g)
    /\ UNCHANGED <<aggVars, cacheVars, fetchVars, moreVars>>

\* resolveSource(normalizeSourceID(req.Source)): the map lookup; the error
\* lists the registered ids (sorted, so the set of keys stands for the list)
resolveSource(registry, id) ==
    LET normalized == normalizeSourceID(id)
    IN  IF normalized \in DOMAIN registry
        THEN [err |-> FALSE, src |-> registry[normalized], available |-> {}]
        ELSE [err |-> TRUE, src |-> EmptyStr, available |-> DOMAIN registry]

\* what RunSearch returns for a source: the error of resolveSource, or what
\* src.Run returns, known here by the source that ran
runSearchResult(registry, source) ==
    LET r == resolveSource(registry, normalizeSourceID(source))
    IN  IF r.err THEN <<"unknown source">> ELSE <<"ran", r.src>>

Resolve(g) ==
    /\ ~crashed /\ caller[g].pc = "resolve"
    /\ LET r == resolveSource(sourceRegistry, normalizeSourceID(caller[g].source))
       IN  caller' = [caller EXCEPT ![g] =
                         IF r.err
                         THEN [@ EXCEPT !.pc = "done",
                                        !.result = runSearchResult(sourceRegistry,
                                                                   caller[g].source)]
                         ELSE [@ EXCEPT !.pc = "run"]]
    /\ RaceOutcome(g)
    /\ UNCHANGED sourceRegistry
    /\ UNCHANGED <<aggVars, cacheVars, fetchVars, moreVars>>

\* src.Run(ctx, req) returns
Run(g) ==
    /\ ~crashed /\ caller[g].pc = "run"
    /\ caller' = [caller EXCEPT ![g] =
                     [@ EXCEPT !.pc = "done",
                               !.result = runSearchResult(sourceRegistry, caller[g].source)]]
    /\ UNCHANGED <<sourceRegistry, crashed>>
    /\ UNCHANGED <<aggVars, cacheVars, fetchVars, moreVars>>

NextReg ==
    \/ \E g \in Goroutines : CallRunSearch(g)
    \/ \E g \in Goroutines : BeginAssign(g)
    \/ \E g \in Goroutines : EndAssign(g)
    \/ \E g \in Goroutines : Resolve(g)
    \/ \E g \in Goroutines : Run(g)

SpecReg == InitReg /\ [][NextReg]_vars

(***************************************************************************)
(* Specification of the pure helpers: each step is one call, applied       *)
(* records the arguments and the result.                                   *)
(***************************************************************************)
\* the latest instant, in half days, handed to splitDateWindows
MaxSplitTime == 9

SplitTimes == 1..MaxSplitTime
\* window lengths in days; 0 stands for "not set" and selects maxWindowDays
SplitDays == {0, 1, 2, 3}

InitPure ==
    /\ applied = << >>
    /\ AggIdle /\ CacheIdle /\ FetchIdle /\ RegIdle /\ ReqIdle /\ NswIdle /\ WriteIdle

\* a call splitDateWindows(start, end, windowDays)
ApplySplit ==
    /\ \E start \in SplitTimes, end \in SplitTimes, k \in SplitDays :
           applied' = [start |-> start, end |-> end, windowDays |-> k,
                       windows |-> splitDateWindows(start, end, k)]
    /\ UNCHANGED <<aggVars, cacheVars, fetchVars, regVars, reqVars, nswVars, writeVars>>

NextPure == ApplySplit

SpecPure == InitPure /\ [][NextPure]_vars

(***************************************************************************)
(* Specification of ocdsClient.doRequest for one URL: the API answers each *)
(* GET in any way, the timer of a backoff sleep fires, and the context may *)
(* end at any moment.                                                      *)
(***************************************************************************)
requestMaxRetries == 4
\* initialRetryDelay, in seconds
initialRetryDelay == 1

\* what httpClient.Do and the decoding of the body give: a transport error
\* (status 0), or a status with, for 200, a body that decodes with
\* errorCode 0 ("ok"), decodes with errorCode # 0 ("apierr") or does not
\* decode ("badjson")
Response(status, body) == [status |-> status, body |-> body]
Responses ==
    { Response(0, "none"), Response(404, "none"), Response(429, "none"),
      Response(500, "none"), Response(200, "ok"), Response(200, "apierr"),
      Response(200, "badjson") }

\* an endpoint that retries every client error as well
shouldRetryStatus_AnyError(code) == code >= 400
\* shouldRetryStatus
shouldRetryStatus(code) == code = 429 \/ (code >= 500 /\ code < 600)

\* a backoff that grows by the initial delay
nextBackoff_Linear(b) == b + initialRetryDelay
\* backoff *= 2
nextBackoff(b) == b * 2

\* the error doRequest holds after a response that is not a decoded payload
errOf(resp) ==
    IF resp.status = 0 THEN <<"transport">>
    ELSE IF resp.status # 200 THEN <<"status", resp.status>>
    ELSE IF resp.body = "badjson" THEN <<"decode">>
    ELSE <<"ocds api error">>

InitReq ==
    /\ attempt = 0
    /\ backoff = IF initialRetryDelay <= 0 THEN 1 ELSE initialRetryDelay
    /\ lastErr = <<"nil">>
    /\ reqPc = "send"
    /\ reqRet = <<"running">>
    /\ reqCtx = "nil"
    /\ reqLog = << >>
    /\ AggIdle /\ CacheIdle /\ FetchIdle /\ RegIdle /\ PureIdle /\ NswIdle /\ WriteIdle

Sent(resp) == [ev |-> "attempt", resp |-> resp]
Slept(d) == [ev |-> "sleep", d |-> d]

\* the caller cancels ctx, or its deadline passes
CtxEnds ==
    /\ reqPc # "done" /\ reqCtx = "nil"
    /\ \E e \in {"canceled", "deadline"} : reqCtx' = e
    /\ UNCHANGED <<attempt, backoff, lastErr, reqPc, reqRet, reqLog>>
    /\ UNCHANGED <<aggVars, cacheVars, fetchVars, regVars, applied, nswVars, writeVars>>

\* how the iteration of the loop ends after a response: with the payload,
\* with an error that is not retried, with the last error once the retries
\* are used up, or in the backoff sleep
iterationEnd(resp, n) ==
    IF resp.status = 200 THEN (IF resp.body = "ok" THEN "payload" ELSE "fail")
    ELSE IF resp.status # 0 /\ ~shouldRetryStatus(resp.status) THEN "fail"
    ELSE IF n = requestMaxRetries THEN "exhausted"
    ELSE "sleep"

\* httpClient.Do returns and the iteration runs up to its return or to its
\* sleep; under an ended context Do returns the context's error
Respond ==
    /\ reqPc = "send"
    /\ \E resp \in (IF reqCtx = "nil" THEN Responses ELSE {Response(0, "none")}) :
       \E how \in {iterationEnd(resp, attempt)} :
         /\ reqLog' = IF how = "sleep"
                      THEN reqLog \o <<Sent(resp), Slept(backoff)>>
                      ELSE Append(reqLog, Sent(resp))
         /\ reqPc' = IF how = "sleep" THEN "sleep" ELSE "done"
         /\ reqRet' = IF how = "payload" THEN <<"payload">>
                      ELSE IF how = "sleep" THEN reqRet
                      ELSE errOf(resp)
         /\ lastErr' = IF how \in {"exhausted", "sleep"} THEN errOf(resp) ELSE lastErr
    /\ UNCHANGED <<attempt, backoff, reqCtx>>
    /\ UNCHANGED <<aggVars, cacheVars, fetchVars, regVars, applied, nswVars, writeVars>>

\* sleepWithContext: the timer fires, the loop goes on
TimerFires ==
    /\ reqPc = "sleep" /\ reqCtx = "nil"
    /\ backoff' = nextBackoff(backoff)
    /\ attempt' = attempt + 1
    /\ reqPc' = "send"
    /\ UNCHANGED <<lastErr, reqRet, reqCtx, reqLog>>
    /\ UNCHANGED <<aggVars, cacheVars, fetchVars, regVars, applied, nswVars, writeVars>>

\* sleepWithContext: ctx.Done() wins, doRequest returns ctx.Err()
SleepInterrupted ==
    /\ reqPc = "sleep" /\ reqCtx # "nil"
    /\ reqPc' = "done"
    /\ reqRet' = <<reqCtx>>
    /\ UNCHANGED <<attempt, backoff, lastErr, reqCtx, reqLog>>
    /\ UNCHANGED <<aggVars, cacheVars, fetchVars, regVars, applied, nswVars, writeVars>>

NextReq == CtxEnds \/ Respond \/ TimerFires \/ SleepInterrupted

SpecReq == InitReq /\ [][NextReq]_vars

(***************************************************************************)
(* Specification of the partition of a match: each step routes one match   *)
(* as lakeWriterPool.write does, applied records the match, the key        *)
(* partitionKeyLake gave it and the directory newSink made for it.         *)
(***************************************************************************)
\* the sources, release dates, agencies and suppliers of the matches
PartSources == {EmptyStr, sFederal, <<" ","V","I","C"," ">>}
PartDates == {ZeroTime, Noon(15), Noon(200)}
PartAgencies == {EmptyStr, <<" ">>, sATO, <<"&">>}
PartSuppliers == {EmptyStr, <<" "," ">>, sKPMG}
\* time.Now() at the call: today, or a year from now
PartNows == {Today, AddYears(Today, 1)}

InitPart ==
    /\ applied = << >>
    /\ AggIdle /\ CacheIdle /\ FetchIdle /\ RegIdle /\ ReqIdle /\ NswIdle /\ WriteIdle

\* lakeWriterPool.write of a match into an empty pool: the key of the sink
\* and the directory of its part
ApplyPartition ==
    /\ \E source \in PartSources, ts \in PartDates, agency \in PartAgencies,
          company \in PartSuppliers, now \in PartNows :
           applied' = [source |-> source, releaseDate |-> ts, agency |-> agency,
                       supplier |-> company, now |-> now,
                       key |-> partitionKeyLake(ts, source, agency, company, now),
                       dir |-> sinkDir(source, ts, agency, company, now)]
    /\ UNCHANGED <<aggVars, cacheVars, fetchVars, regVars, reqVars, nswVars, writeVars>>

NextPart == ApplyPartition

SpecPart == InitPart /\ [][NextPart]_vars

(***************************************************************************)
(* The row handlers of the state sources.  Each takes the rows of a page   *)
(* in order and st = [seen, total, any, match]: the source's seen map and  *)
(* total, and how often each contract id was handed to req.OnAnyMatch and  *)
(* to req.OnMatch.                                                         *)
(***************************************************************************)
sSa == <<"s", "a">>
sWa == <<"w", "a">>

\* the rows of one page handled by cards.Each of runNswWithBrowser: seen and
\* total are its locals, any and match the calls of the callbacks
RECURSIVE browserRows(_, _, _)
browserRows(rows, req, st) ==
    IF rows = << >> THEN st
    ELSE LET row == Head(rows)
             id == row.summary.ContractID
         IN  IF id \in st.seen THEN browserRows(Tail(rows), req, st)
             ELSE IF ~matchesSummaryFilters(req, row.summary, row.periodEnd)
             THEN browserRows(Tail(rows), req,
                              [st EXCEPT !.seen = @ \cup {id}, !.any = BagAdd(@, id)])
             ELSE browserRows(Tail(rows), req,
                              [st EXCEPT !.seen = @ \cup {id}, !.any = BagAdd(@, id),
                                         !.match = BagAdd(@, id),
                                         !.total = @ + row.summary.Amount])

\* vicSource.Run, the collector's handler of a results table: rows without
\* a start date are dropped, there is no seen map
RECURSIVE vicRows(_, _, _)
vicRows(rows, req, st) ==
    IF rows = << >> THEN st
    ELSE LET row == Head(rows)
             id == row.summary.ContractID
             summary == [row.summary EXCEPT !.Source = sVic]
         IN  IF summary.ReleaseDate = ZeroTime THEN vicRows(Tail(rows), req, st)
             ELSE IF ~matchesSummaryFilters(req, summary, row.periodEnd)
             THEN vicRows(Tail(rows), req, [st EXCEPT !.any = BagAdd(@, id)])
             ELSE vicRows(Tail(rows), req,
                          [st EXCEPT !.any = BagAdd(@, id), !.match = BagAdd(@, id),
                                     !.total = @ + summary.Amount])

\* runSaWithBrowser, the handler of a row: a missing supplier or buyer is
\* filled in from the request before the summary is built
RECURSIVE saRows(_, _, _)
saRows(rows, req, st) ==
    IF rows = << >> THEN st
    ELSE LET row == Head(rows)
             id == row.summary.ContractID
             supplier0 == IF row.summary.Supplier = EmptyStr /\ req.Keyword # EmptyStr
                          THEN req.Keyword ELSE row.summary.Supplier
             supplier == IF supplier0 = EmptyStr /\ req.Company # EmptyStr
                         THEN req.Company ELSE supplier0
             buyer == IF row.summary.Agency = EmptyStr /\ req.Agency # EmptyStr
                      THEN req.Agency ELSE row.summary.Agency
             summary == [row.summary EXCEPT !.Source = sSa, !.Supplier = supplier,
                                            !.Agency = buyer]
         IN  IF id \in st.seen THEN saRows(Tail(rows), req, st)
             ELSE IF ~matchesSummaryFilters(req, summary, ZeroTime)
             THEN saRows(Tail(rows), req,
                         [st EXCEPT !.seen = @ \cup {id}, !.any = BagAdd(@, id)])
             ELSE saRows(Tail(rows), req,
                         [st EXCEPT !.seen = @ \cup {id}, !.any = BagAdd(@, id),
                                    !.match = BagAdd(@, id),
                                    !.total = @ + summary.Amount])

\* waSource.Run, the handler of a row of #contractTable: the agency test
\* comes before the insert into seen, the company test after it, and the only
\* callback called is req.OnMatch
RECURSIVE waRows(_, _, _)
waRows(rows, req, st) ==
    IF rows = << >> THEN st
    ELSE LET row == Head(rows)
             ref == row.summary.ContractID
         IN  IF ref \in st.seen THEN waRows(Tail(rows), req, st)
             ELSE IF req.Agency # EmptyStr
                     /\ ~Contains(ToLower(row.summary.Agency), ToLower(req.Agency))
             THEN waRows(Tail(rows), req, st)
             ELSE IF req.Company # EmptyStr
                     /\ ~Contains(ToLower(row.summary.Supplier), ToLower(req.Company))
             THEN waRows(Tail(rows), req, [st EXCEPT !.seen = @ \cup {ref}])
             ELSE waRows(Tail(rows), req,
                         [st EXCEPT !.seen = @ \cup {ref}, !.match = BagAdd(@, ref),
                                    !.total = @ + row.summary.Amount])

(***************************************************************************)
(* Specification of nswSource.Run on the parallel path, with the           *)
(* callbacks of the request set: runNswWithCollyParallel and, when it      *)
(* returns errNswWAF, runNswWithBrowser.  Goroutine 0 is the caller;       *)
(* goroutine i is the one started for window i.  Each step is one atomic   *)
(* operation of a goroutine: a channel operation, an atomic add or load    *)
(* of completed, a section under shared.mu, the entry into and the return  *)
(* from a callback under shared.cbMu.                                      *)
(***************************************************************************)
NswMain == 0
NswWorkers == DOMAIN nswPc \ {NswMain}

\* determineDefaultConcurrency
determineDefaultConcurrency(cores) == IF cores <= 1 THEN 1 ELSE cores - 1

\* maxConc: defaultMaxConcurrency, at least 1 and at most len(windows)
nswMaxConc(defaultMax, nWindows) ==
    LET atLeastOne == IF defaultMax < 1 THEN 1 ELSE defaultMax
    IN  IF atLeastOne > nWindows THEN nWindows ELSE atLeastOne

\* the errors runNswCollyWindow returns
NswErrors == {"nil", "errNswWAF", "scrape error"}

\* the notices the site lists: one of KPMG that the searches of two windows
\* both return, one of Acme
NswRowKPMG == Row(Summary(sNsw, sCN1, sKPMG, 10000, Noon(15)), ZeroTime)
NswRowAcme == Row(Summary(sNsw, sCN2, sAcme, 7000, Noon(20)), ZeroTime)
NswRows(win) == IF win % 2 = 1 THEN <<NswRowKPMG, NswRowAcme>> ELSE <<NswRowKPMG>>
NswAmountOf(id) == IF id = sCN1 THEN NswRowKPMG.summary.Amount
                   ELSE NswRowAcme.summary.Amount

\* the requests: no filter, or the supplier filter kpmg
NswRequests ==
    { Request(EmptyStr, EmptyStr, EmptyStr, Midnight(1), Midnight(63)),
      Request(EmptyStr, skpmg, EmptyStr, Midnight(1), Midnight(63)) }

\* the state after len(windows) > 0 passed and before the first iteration
InitNsw ==
    /\ \E n \in 1..MaxWindows, cores \in 1..(MaxConcurrent + 1), req \in NswRequests :
          /\ nswPc = [g \in 0..n |->
                         IF g = NswMain
                         THEN [pc |-> "loop", win |-> 1, totalWindows |-> n,
                               maxConc |-> nswMaxConc(determineDefaultConcurrency(cores), n),
                               req |-> req, seen |-> {}, total |-> 0, completed |-> 0,
                               ret |-> "running", retTotal |-> formatMoneyDecimal(0)]
                         ELSE "not started"]
          /\ nswLoaded = [g \in 0..n |-> 0]
          /\ nswRow = [g \in 1..n |-> 1]
    /\ nswCompleted = 0 /\ nswSem = 0 /\ nswCtxDone = FALSE
    /\ nswFirstErr = "nil" /\ nswCalls = << >>
    /\ nswSeen = {} /\ nswTotal = 0 /\ nswAny = << >> /\ nswMatch = << >>
    /\ AggIdle /\ CacheIdle /\ FetchIdle /\ RegIdle /\ PureIdle /\ ReqIdle /\ WriteIdle

NswOthers == <<aggVars, cacheVars, fetchVars, regVars, applied, reqVars, writeVars>>
nswProgVars == <<nswLoaded, nswCompleted, nswCalls>>
nswCtlVars == <<nswSem, nswCtxDone, nswFirstErr>>
nswRowVars == <<nswRow, nswSeen, nswTotal, nswAny, nswMatch>>

main == nswPc[NswMain]
NswMainAt(pc) == main.pc = pc
NswMainGoto(pc) == nswPc' = [nswPc EXCEPT ![NswMain].pc = pc]
NswAt(i, pc) == nswPc[i] = pc
NswGoto(i, pc) == nswPc' = [nswPc EXCEPT ![i] = pc]

\* atomic.AddInt32(&completed, 1)
AddInt32(v) == v + 1

\* notifyProgress after its load: req.OnProgress(loaded, totalWindows)
OnProgressCall(calls, loaded, totalWindows) ==
    Append(calls, [completed |-> loaded, total |-> totalWindows])

\* the loop: req.ShouldFetchWindow(win) is false, completed is incremented
NswSkipWindow ==
    /\ NswMainAt("loop") /\ main.win <= main.totalWindows
    /\ nswCompleted' = AddInt32(nswCompleted)
    /\ NswMainGoto("load")
    /\ UNCHANGED <<nswLoaded, nswCalls, nswCtlVars, nswRowVars, NswOthers>>

\* notifyProgress of the loop: atomic.LoadInt32(&completed)
NswMainLoad ==
    /\ NswMainAt("load")
    /\ nswLoaded' = [nswLoaded EXCEPT ![NswMain] = nswCompleted]
    /\ NswMainGoto("call")
    /\ UNCHANGED <<nswCompleted, nswCalls, nswCtlVars, nswRowVars, NswOthers>>

\* notifyProgress of the loop: req.OnProgress is called, then continue
NswMainCall ==
    /\ NswMainAt("call")
    /\ nswCalls' = OnProgressCall(nswCalls, nswLoaded[NswMain], main.totalWindows)
    /\ nswPc' = [nswPc EXCEPT ![NswMain].pc = "loop", ![NswMain].win = @ + 1]
    /\ UNCHANGED <<nswLoaded, nswCompleted, nswCtlVars, nswRowVars, NswOthers>>

\* the loop: ShouldFetchWindow is nil or true, wg.Add(1) and go func()
NswStartWorker ==
    /\ NswMainAt("loop") /\ main.win <= main.totalWindows
    /\ nswPc' = [nswPc EXCEPT ![main.win] = "select", ![NswMain].win = @ + 1]
    /\ UNCHANGED <<nswProgVars, nswCtlVars, nswRowVars, NswOthers>>

\* select: sem <- struct{}{}; the collector of the window starts
NswAcquire(i) ==
    /\ NswAt(i, "select") /\ nswSem < main.maxConc
    /\ nswSem' = nswSem + 1
    /\ NswGoto(i, "row")
    /\ UNCHANGED <<nswProgVars, nswCtxDone, nswFirstErr, nswRowVars, NswOthers>>

\* select: <-ctx.Done(), the goroutine returns without counting its window
NswGiveUp(i) ==
    /\ NswAt(i, "select") /\ nswCtxDone
    /\ NswGoto(i, "done")
    /\ UNCHANGED <<nswProgVars, nswCtlVars, nswRowVars, NswOthers>>

\* the row the collector of worker i is handling
NswRowOf(i) == NswRows(i)[nswRow[i]]
NswNextRow(i) == nswRow' = [nswRow EXCEPT ![i] = @ + 1]

\* a test of shared.seen that never finds the contract
firstSeen_Always(seen, contractID) == TRUE

\* _, ok := shared.seen[contractID]; !ok
firstSeen(seen, contractID) == contractID \notin seen

\* OnHTML of a row: return if ctx.Err() != nil; under shared.mu, return if
\* the contract is in shared.seen, else put it there
NswRowSeen(i) ==
    /\ NswAt(i, "row") /\ nswRow[i] <= Len(NswRows(i))
    /\ IF ~nswCtxDone /\ firstSeen(nswSeen, NswRowOf(i).summary.ContractID)
       THEN /\ nswSeen' = nswSeen \cup {NswRowOf(i).summary.ContractID}
            /\ NswGoto(i, "any")
            /\ UNCHANGED nswRow
       ELSE /\ NswNextRow(i)
            /\ UNCHANGED <<nswSeen, nswPc>>
    /\ UNCHANGED <<nswProgVars, nswCtlVars, nswTotal, nswAny, nswMatch, NswOthers>>

\* the workers between shared.cbMu.Lock() and shared.cbMu.Unlock()
cbMuHolders == { i \in NswWorkers : NswAt(i, "in any") \/ NswAt(i, "in match") }

\* a mutex that never blocks
mutexFree_Always(holders) == TRUE

\* sync.Mutex.Lock returns when no goroutine holds the mutex
mutexFree(holders) == holders = {}

\* shared.cbMu.Lock(); req.OnAnyMatch(summary) is entered
NswEnterAny(i) ==
    /\ NswAt(i, "any") /\ mutexFree(cbMuHolders)
    /\ nswAny' = BagAdd(nswAny, NswRowOf(i).summary.ContractID)
    /\ NswGoto(i, "in any")
    /\ UNCHANGED <<nswProgVars, nswCtlVars, nswRow, nswSeen, nswTotal, nswMatch, NswOthers>>

\* req.OnAnyMatch returns; shared.cbMu.Unlock(); matchesSummaryFilters
NswLeaveAny(i) ==
    /\ NswAt(i, "in any")
    /\ IF matchesSummaryFilters(main.req, NswRowOf(i).summary, NswRowOf(i).periodEnd)
       THEN NswGoto(i, "match") /\ UNCHANGED nswRow
       ELSE NswGoto(i, "row") /\ NswNextRow(i)
    /\ UNCHANGED <<nswProgVars, nswCtlVars, nswSeen, nswTotal, nswAny, nswMatch, NswOthers>>

\* shared.cbMu.Lock(); req.OnMatch(summary) is entered
NswEnterMatch(i) ==
    /\ NswAt(i, "match") /\ mutexFree(cbMuHolders)
    /\ nswMatch' = BagAdd(nswMatch, NswRowOf(i).summary.ContractID)
    /\ NswGoto(i, "in match")
    /\ UNCHANGED <<nswProgVars, nswCtlVars, nswRow, nswSeen, nswTotal, nswAny, NswOthers>>

\* req.OnMatch returns; shared.cbMu.Unlock()
NswLeaveMatch(i) ==
    /\ NswAt(i, "in match")
    /\ NswGoto(i, "total")
    /\ UNCHANGED <<nswProgVars, nswCtlVars, nswRowVars, NswOthers>>

\* under shared.mu: shared.total = shared.total.Add(summary.Amount)
NswAddTotal(i) ==
    /\ NswAt(i, "total")
    /\ nswTotal' = nswTotal + NswRowOf(i).summary.Amount
    /\ NswGoto(i, "row") /\ NswNextRow(i)
    /\ UNCHANGED <<nswProgVars, nswCtlVars, nswSeen, nswAny, nswMatch, NswOthers>>

\* runNswCollyWindow returns: nil after the last row, or the scrapeErr a
\* response set before the rows of its page; firstErr keeps the first
\* error, errNswWAF cancels
NswWindowReturns(i) ==
    /\ NswAt(i, "row")
    /\ \E err \in NswErrors :
          /\ err = "nil" => nswRow[i] > Len(NswRows(i))
          /\ nswFirstErr' = IF err # "nil" /\ nswFirstErr = "nil" THEN err ELSE nswFirstErr
          /\ nswCtxDone' = (nswCtxDone \/ err = "errNswWAF")
    /\ NswGoto(i, "add")
    /\ UNCHANGED <<nswProgVars, nswSem, nswRowVars, NswOthers>>

\* atomic.AddInt32(&completed, 1) of a worker
NswAdd(i) ==
    /\ NswAt(i, "add")
    /\ nswCompleted' = AddInt32(nswCompleted)
    /\ NswGoto(i, "load")
    /\ UNCHANGED <<nswLoaded, nswCalls, nswCtlVars, nswRowVars, NswOthers>>

\* notifyProgress of a worker: atomic.LoadInt32(&completed)
NswLoad(i) ==
    /\ NswAt(i, "load")
    /\ nswLoaded' = [nswLoaded EXCEPT ![i] = nswCompleted]
    /\ NswGoto(i, "call")
    /\ UNCHANGED <<nswCompleted, nswCalls, nswCtlVars, nswRowVars, NswOthers>>

\* notifyProgress of a worker: req.OnProgress is called
NswCall(i) ==
    /\ NswAt(i, "call")
    /\ nswCalls' = OnProgressCall(nswCalls, nswLoaded[i], main.totalWindows)
    /\ NswGoto(i, "release")
    /\ UNCHANGED <<nswLoaded, nswCompleted, nswCtlVars, nswRowVars, NswOthers>>

\* the deferred <-sem and wg.Done()
NswRelease(i) ==
    /\ NswAt(i, "release")
    /\ nswSem' = nswSem - 1
    /\ NswGoto(i, "done")
    /\ UNCHANGED <<nswProgVars, nswCtxDone, nswFirstErr, nswRowVars, NswOthers>>

\* wg.Wait() returns once every started goroutine is done and the deferred
\* cancel() runs.  nswSource.Run returns the total, or the error unless it
\* is errNswWAF: then it calls runNswWithBrowser with the same windows
NswReturn ==
    /\ NswMainAt("loop") /\ main.win > main.totalWindows
    /\ \A i \in NswWorkers : NswAt(i, "done") \/ NswAt(i, "not started")
    /\ nswPc' = [nswPc EXCEPT
                    ![NswMain] =
                        CASE nswFirstErr = "nil" ->
                               [@ EXCEPT !.pc = "returned", !.ret = "total",
                                         !.retTotal = formatMoneyDecimal(nswTotal)]
                          [] nswFirstErr = "errNswWAF" ->
                               [@ EXCEPT !.pc = "browser", !.win = 1]
                          [] OTHER ->
                               [@ EXCEPT !.pc = "returned", !.ret = nswFirstErr]]
    /\ nswCtxDone' = TRUE
    /\ UNCHANGED <<nswProgVars, nswSem, nswFirstErr, nswRowVars, NswOthers>>

\* runNswWithBrowser: req.ShouldFetchWindow(win) is false
NswBrowserSkip ==
    /\ NswMainAt("browser") /\ main.win <= main.totalWindows
    /\ nswCalls' = OnProgressCall(nswCalls, main.completed + 1, main.totalWindows)
    /\ nswPc' = [nswPc EXCEPT ![NswMain].completed = @ + 1, ![NswMain].win = @ + 1]
    /\ UNCHANGED <<nswLoaded, nswCompleted, nswCtlVars, nswRowVars, NswOthers>>

\* runNswWithBrowser: the pages of one window; chromedp.Run may fail after
\* the rows of earlier pages were handled
NswBrowserWindow ==
    /\ NswMainAt("browser") /\ main.win <= main.totalWindows
    /\ \E handled \in 0..Len(NswRows(main.win)) :
       \E st \in { browserRows(SubSeq(NswRows(main.win), 1, handled), main.req,
                               [seen |-> main.seen, total |-> main.total,
                                any |-> nswAny, match |-> nswMatch]) } :
          /\ nswAny' = st.any
          /\ nswMatch' = st.match
          /\ IF handled = Len(NswRows(main.win))
             THEN /\ nswCalls' = OnProgressCall(nswCalls, main.completed + 1,
                                                main.totalWindows)
                  /\ nswPc' = [nswPc EXCEPT ![NswMain].seen = st.seen,
                                            ![NswMain].total = st.total,
                                            ![NswMain].completed = @ + 1,
                                            ![NswMain].win = @ + 1]
             ELSE /\ nswPc' = [nswPc EXCEPT ![NswMain].seen = st.seen,
                                            ![NswMain].total = st.total,
                                            ![NswMain].pc = "returned",
                                            ![NswMain].ret = "chromedp error"]
                  /\ UNCHANGED nswCalls
    /\ UNCHANGED <<nswLoaded, nswCompleted, nswCtlVars, nswRow, nswSeen, nswTotal, NswOthers>>

\* runNswWithBrowser returns formatMoneyDecimal(total)
NswBrowserReturn ==
    /\ NswMainAt("browser") /\ main.win > main.totalWindows
    /\ nswPc' = [nswPc EXCEPT ![NswMain].pc = "returned", ![NswMain].ret = "total",
                              ![NswMain].retTotal = formatMoneyDecimal(main.total)]
    /\ UNCHANGED <<nswProgVars, nswCtlVars, nswRowVars, NswOthers>>

NextNsw ==
    \/ NswSkipWindow
    \/ NswMainLoad
    \/ NswMainCall
    \/ NswStartWorker
    \/ \E i \in NswWorkers : NswAcquire(i)
    \/ \E i \in NswWorkers : NswGiveUp(i)
    \/ \E i \in NswWorkers : NswRowSeen(i)
    \/ \E i \in NswWorkers : NswEnterAny(i)
    \/ \E i \in NswWorkers : NswLeaveAny(i)
    \/ \E i \in NswWorkers : NswEnterMatch(i)
    \/ \E i \in NswWorkers : NswLeaveMatch(i)
    \/ \E i \in NswWorkers : NswAddTotal(i)
    \/ \E i \in NswWorkers : NswWindowReturns(i)
    \/ \E i \in NswWorkers : NswAdd(i)
    \/ \E i \in NswWorkers : NswLoad(i)
    \/ \E i \in NswWorkers : NswCall(i)
    \/ \E i \in NswWorkers : NswRelease(i)
    \/ NswReturn
    \/ NswBrowserSkip
    \/ NswBrowserWindow
    \/ NswBrowserReturn

SpecNsw == InitNsw /\ [][NextNsw]_vars

(***************************************************************************)
(* Specification of the row handlers: each step hands the rows of one      *)
(* results page to the handler of one state source; applied records the    *)
(* source, the request, the rows and what the handler did.                 *)
(***************************************************************************)
\* the state sources: nswSource, vicSource, saSource, waSource
StateSources == {sNsw, sVic, sSa, sWa}

\* the rows of a page: a KPMG and an Acme contract of agency ATO, and a
\* contract of KPMG released after the end date of the requests
PageRowKPMG == Row(Summary(EmptyStr, sCN1, sKPMG, 10000, Noon(15)), ZeroTime)
PageRowAcme == Row(Summary(EmptyStr, sCN2, sAcme, 7000, Noon(20)), Noon(40))
PageRowLate == Row(Summary(EmptyStr, sCNACT, sKPMG, 500, Noon(90)), Noon(120))
PageRowSet == {PageRowKPMG, PageRowAcme, PageRowLate}
MaxRows == 3
Pages == UNION { [1..n -> PageRowSet] : n \in 0..MaxRows }

\* the requests: no filter, the supplier kpmg, the agency ato
RowRequests ==
    { Request(EmptyStr, EmptyStr, EmptyStr, Midnight(1), Midnight(63)),
      Request(EmptyStr, skpmg, EmptyStr, Midnight(1), Midnight(63)),
      Request(EmptyStr, EmptyStr, <<"a","t","o">>, Midnight(1), Midnight(63)) }

\* the handler of a source
handleRows(source, rows, req) ==
    LET st0 == [seen |-> {}, total |-> 0, any |-> << >>, match |-> << >>]
    IN  CASE source = sNsw -> browserRows(rows, req, st0)
          [] source = sVic -> vicRows(rows, req, st0)
          [] source = sSa -> saRows(rows, req, st0)
          [] OTHER -> waRows(rows, req, st0)

InitRows ==
    /\ applied = << >>
    /\ AggIdle /\ CacheIdle /\ FetchIdle /\ RegIdle /\ ReqIdle /\ NswIdle /\ WriteIdle

ApplyRows ==
    /\ applied = << >>
    /\ \E source \in StateSources, rows \in Pages, req \in RowRequests :
          applied' = [source |-> source, rows |-> rows, req |-> req,
                      out |-> handleRows(source, rows, req)]
    /\ UNCHANGED <<aggVars, cacheVars, fetchVars, regVars, reqVars, nswVars, writeVars>>

NextRows == ApplyRows

SpecRows == InitRows /\ [][NextRows]_vars

(***************************************************************************)
(* Specification of one RunSearchWithCache call on the source nsw with     *)
(* NSW_USE_BROWSER=true: nswSource.Run calls runNswWithBrowser, which      *)
(* takes the windows one after the other; the callbacks of                 *)
(* RunSearchWithCache write every summary to the writer pool.  Opening a   *)
(* part can fail (os.MkdirAll or os.Create of newSink).                    *)
(***************************************************************************)
\* the notices of the site: KPMG published 20 January, Acme published
\* 9 February, KPMG published 19 February
WrRowA == Row(Summary(sNsw, sCN1, sKPMG, 10000, Noon(20)), ZeroTime)
WrRowB == Row(Summary(sNsw, sCN2, sAcme, 7000, Noon(40)), ZeroTime)
WrRowC == Row(Summary(sNsw, sCNACT, sKPMG, 500, Noon(50)), ZeroTime)
WrNotices == <<WrRowA, WrRowB, WrRowC>>

\* the requests: 15 January to 10 March (two windows, the second starting
\* 15 February), no filter or the supplier kpmg
WrRequests ==
    { [Request(EmptyStr, company, EmptyStr, Midnight(15), Midnight(70))
          EXCEPT !.Source = sNsw] : company \in {EmptyStr, skpmg} }

\* the cards the search of a window lists: the notices of the site that
\* were published within the window, in the order of the site
IsListed(site, win, row) ==
    /\ row \in site
    /\ win.start <= row.summary.ReleaseDate /\ row.summary.ReleaseDate <= win.end
cardsOf(site, win) == SelectSeq(WrNotices, LAMBDA row : IsListed(site, win, row))

\* what an earlier call handed to its pool: the January notice, or that and
\* the notice of 19 February
EarlierCalls ==
    { <<Call("any", WrRowA.summary)>>,
      <<Call("any", WrRowA.summary), Call("any", WrRowC.summary)>> }

InitWrite ==
    /\ \E site \in SUBSET {WrRowA, WrRowB, WrRowC} : wr = [pc |-> "new", site |-> site]
    /\ lakeFiles = << >> /\ catalog = << >> /\ clock = 0
    /\ checkpoints = << >> /\ indexFresh = TRUE /\ published = 0 /\ history = << >>
    /\ wrPool = << >> /\ wrOut = << >>
    /\ AggIdle /\ FetchIdle /\ RegIdle /\ PureIdle /\ ReqIdle /\ NswIdle

WrOthers == <<aggVars, fetchVars, regVars, applied, reqVars, nswVars>>
WrAt(pc) == wr.pc = pc

\* lakeWriterPool.write with its error: newSink is called for a partition
\* without a sink and fails when opened is false; the pool is then left as
\* it was
poolWriteErr(pool, files, ms, now, stamp, opened) ==
    IF opened \/ partitionKeyLake(ms.ReleaseDate, ms.Source, ms.Agency, ms.Supplier, now)
                    \in DOMAIN pool.sinks
    THEN [w |-> poolWrite(pool, files, ms, now, stamp), err |-> FALSE]
    ELSE [w |-> [pool |-> pool, files |-> files], err |-> TRUE]

\* an earlier call wrote its summaries through a pool and closed it, and
\* a second passed
WrEarlierCall ==
    /\ WrAt("new")
    /\ \E calls \in EarlierCalls :
       \E w \in {writeCalls(newLakeWriterPool, lakeFiles, calls, Today, clock)} :
       \E closed \in {closeAll(w.pool, w.files, catalog, clock)} :
           /\ lakeFiles' = closed.files
           /\ catalog' = closed.catalog
    /\ clock' = clock + 1
    /\ wr' = [wr EXCEPT !.pc = "idle"]
    /\ UNCHANGED <<checkpoints, indexFresh, published, history, wrPool, wrOut, WrOthers>>

\* the call returns the cached total, or the source is run: the pool is
\* made, nswSource.Run splits the range and runNswWithBrowser starts
WrStart ==
    /\ WrAt("new") \/ WrAt("idle")
    /\ \E req \in WrRequests :
       \E pre \in {cachePre(lakeFiles, catalog, checkpoints, req, Today)} :
           IF pre.short
           THEN /\ SearchShortCircuit(req, pre)
                /\ wr' = [wr EXCEPT !.pc = "returned"]
                /\ UNCHANGED <<wrPool, wrOut>>
           ELSE /\ wr' = [pc |-> "gate", site |-> wr.site, req |-> req, pre |-> pre,
                          windows |-> splitDateWindows(pre.runReq.StartDate,
                                                       pre.runReq.EndDate, maxWindowDays),
                          win |-> 1, cards |-> << >>, seen |-> {}, completed |-> 0,
                          startFiles |-> lakeFiles]
                /\ wrPool' = newLakeWriterPool
                /\ wrOut' = [any |-> << >>, match |-> << >>, total |-> 0,
                             gates |-> << >>, errs |-> 0]
                /\ UNCHANGED <<lakeFiles, catalog, checkpoints, indexFresh, history>>
    /\ UNCHANGED <<clock, published, WrOthers>>

\* req.ShouldFetchWindow(win) of RunSearchWithCache
gateOf(files, req, win) == shouldFetchWindow(files, normalizeSourceID(req.Source), win, Today)

\* the loop of runNswWithBrowser: req.ShouldFetchWindow(win) is false
WrSkipWindow ==
    /\ WrAt("gate") /\ wr.win <= Len(wr.windows)
    /\ ~gateOf(lakeFiles, wr.req, wr.windows[wr.win])
    /\ wr' = [wr EXCEPT !.win = @ + 1, !.completed = @ + 1]
    /\ wrOut' = [wrOut EXCEPT !.gates = Append(@, FALSE)]
    /\ UNCHANGED <<cacheVars, wrPool, WrOthers>>

\* the loop of runNswWithBrowser: the gate is true, the page is loaded
WrOpenWindow ==
    /\ WrAt("gate") /\ wr.win <= Len(wr.windows)
    /\ gateOf(lakeFiles, wr.req, wr.windows[wr.win])
    /\ wr' = [wr EXCEPT !.pc = "cards", !.cards = cardsOf(wr.site, wr.windows[wr.win])]
    /\ wrOut' = [wrOut EXCEPT !.gates = Append(@, TRUE)]
    /\ UNCHANGED <<cacheVars, wrPool, WrOthers>>

\* cards.Each for one card: seen, OnAnyMatch (pool.write),
\* matchesSummaryFilters, OnMatch (the caller's OnMatch, pool.write), total
WrCard ==
    /\ WrAt("cards") /\ wr.cards # << >>
    /\ \E row \in {Head(wr.cards)} :
       \E fresh \in {firstSeen(wr.seen, row.summary.ContractID)} :
           IF ~fresh
           THEN /\ wr' = [wr EXCEPT !.cards = Tail(@)]
                /\ UNCHANGED <<wrPool, wrOut, lakeFiles>>
           ELSE \E openedAny \in BOOLEAN :
                \E wAny \in {poolWriteErr(wrPool, lakeFiles, row.summary, Today, clock,
                                          openedAny)} :
                \E passes \in {matchesSummaryFilters(wr.pre.runReq, row.summary,
                                                     row.periodEnd)} :
                \E openedMatch \in IF passes THEN BOOLEAN ELSE {TRUE} :
                \E last \in {IF passes
                              THEN poolWriteErr(wAny.w.pool, wAny.w.files, row.summary,
                                                Today, clock, openedMatch)
                              ELSE wAny} :
                    /\ wr' = [wr EXCEPT !.cards = Tail(@),
                                        !.seen = @ \cup {row.summary.ContractID}]
                    /\ wrPool' = last.w.pool
                    /\ lakeFiles' = last.w.files
                    /\ wrOut' = [wrOut EXCEPT
                                    !.any = Append(@, row.summary),
                                    !.match = IF passes THEN Append(@, row.summary) ELSE @,
                                    !.total = IF passes THEN @ + row.summary.Amount ELSE @,
                                    !.errs = @ + (IF wAny.err THEN 1 ELSE 0)
                                               + (IF passes /\ last.err THEN 1 ELSE 0)]
    /\ UNCHANGED <<catalog, checkpoints, indexFresh, clock, published, history, WrOthers>>

\* the last page of the window is done: completed++
WrWindowDone ==
    /\ WrAt("cards") /\ wr.cards = << >>
    /\ wr' = [wr EXCEPT !.pc = "gate", !.win = @ + 1, !.completed = @ + 1]
    /\ UNCHANGED <<cacheVars, wrPool, wrOut, WrOthers>>

\* what nswSource.Run returned, as RunSearchWithCache records it
wrRun(err) ==
    [err |-> err, end |-> IF err THEN "fatal" ELSE "ok",
     total |-> formatMoneyDecimal(IF err THEN 0 ELSE wrOut.total),
     requested |-> { wr.windows[i] : i \in { k \in 1..Len(wrOut.gates) : wrOut.gates[k] } },
     consumed |-> { wr.windows[i] : i \in { k \in 1..Len(wrOut.gates) :
                                              wrOut.gates[k] /\ k < wr.win } }]

\* chromedp.Run returns an error: runNswWithBrowser returns it and
\* RunSearchWithCache returns it without closing the pool
WrBrowserFails ==
    /\ WrAt("cards")
    /\ SearchFailed(wr.req, wr.pre, wrRun(TRUE), [pool |-> wrPool, files |-> lakeFiles])
    /\ wr' = [wr EXCEPT !.pc = "returned"]
    /\ UNCHANGED <<clock, published, wrPool, wrOut, WrOthers>>

\* runNswWithBrowser returns the total; RunSearchWithCache closes the pool,
\* adds the totals, saves the checkpoint and returns
WrReturn ==
    /\ WrAt("gate") /\ wr.win > Len(wr.windows)
    /\ SearchFinish(wr.req, wr.pre, wrRun(FALSE), [pool |-> wrPool, files |-> lakeFiles])
    /\ wr' = [wr EXCEPT !.pc = "returned"]
    /\ UNCHANGED <<clock, published, wrPool, wrOut, WrOthers>>

NextWrite ==
    \/ WrEarlierCall
    \/ WrStart
    \/ WrSkipWindow
    \/ WrOpenWindow
    \/ WrCard
    \/ WrWindowDone
    \/ WrBrowserFails
    \/ WrReturn

SpecWrite == InitWrite /\ [][NextWrite]_vars

(***************************************************************************)
(* Properties of the aggregator.                                           *)
(***************************************************************************)
\* a release that is tagged contract/contractAmendment, has a canonical id
\* and resolves to a value > 0
Valued(rel) ==
    /\ \E t \in 1..Len(rel.Tag) : rel.Tag[t] \in {sContract, sContractAmendment}
    /\ canonicalContractID(rel).ok
    /\ releaseValue(rel).ok /\ releaseValue(rel).v > 0

\* what each processed release is, computed once: whether it is valued,
\* whether it passes the filters, its canonical id, time and value
Seen ==
    [i \in 1..Len(processed) |->
        LET rel == processed[i]
        IN  [valued |-> Valued(rel),
             passing |-> Valued(rel) /\ matchesFilters(rel, agg.filters),
             id |-> canonicalContractID(rel).id,
             time |-> parseReleaseTime(rel.Date),
             value |-> releaseValue(rel).v]]

PassingOf(seen, c) == { i \in DOMAIN seen : seen[i].passing /\ seen[i].id = c }
PassingContracts(seen) == { seen[i].id : i \in { j \in DOMAIN seen : seen[j].passing } }

\* the first processed release among those with the greatest releaseDate
WinnerIdx(seen, c) ==
    LET of == PassingOf(seen, c)
    IN  CHOOSE i \in of :
            \A j \in of : seen[j].time < seen[i].time
                          \/ (seen[j].time = seen[i].time /\ i <= j)

RECURSIVE WinnerSum(_, _)
WinnerSum(seen, cs) ==
    IF cs = {} THEN 0
    ELSE LET c == CHOOSE x \in cs : TRUE
         IN  seen[WinnerIdx(seen, c)].value + WinnerSum(seen, cs \ {c})

\* C1: after any sequence of process calls the aggregate of each canonical
\* contract id is the value and date of the valued, filter-passing release
\* with the greatest releaseDate, the first processed one on a tie, and
\* total() is the sum of these values.
C1_LatestReleaseWins ==
    LET seen == Seen
        cs == PassingContracts(seen)
    IN  /\ DOMAIN agg.aggregates = cs
        /\ \A c \in cs :
               LET w == WinnerIdx(seen, c)
               IN  agg.aggregates[c] = [Value |-> seen[w].value, UpdatedAt |-> seen[w].time]
        /\ total(agg) = WinnerSum(seen, cs)

\* C1 witness: one contract received two releases of the same greatest date
\* with different values and afterwards an older release
C1_Witness ==
    LET seen == Seen
    IN  \E c \in PassingContracts(seen) : \E i, j, k \in PassingOf(seen, c) :
            /\ i < j /\ j < k
            /\ seen[i].time = seen[j].time /\ seen[k].time < seen[i].time
            /\ seen[i].value # seen[j].value
            /\ agg.aggregates[c].Value = seen[i].value

\* C2: with a sink set, every valued release (tagged contract or
\* contractAmendment, canonical id, value > 0) is delivered to OnAnyMatch
\* exactly once, whether or not it passes the keyword/company/agency filters.
C2_SinkSeesEveryValuedRelease ==
    LET seen == Seen
        valued == { i \in DOMAIN seen : seen[i].valued }
    IN  agg.hasSink => Len(anyCalls(agg)) = Cardinality(valued)


\* the summaries delivered to OnMatch, as (contract id, IsUpdate, amount,
\* release date)
matchCalls ==
    LET ms == SelectSeq(agg.calls, IsMatch)
    IN  [i \in 1..Len(ms) |->
            <<ms[i].summary.ContractID, ms[i].summary.IsUpdate,
              ms[i].summary.Amount, ms[i].summary.ReleaseDate>>]

\* the OnMatch calls the claim expects for the first n processed releases
RECURSIVE ExpectedMatches(_, _)
ExpectedMatches(seen, n) ==
    IF n = 0 THEN << >>
    ELSE LET before == { j \in PassingOf(seen, seen[n].id) : j < n }
             call(isUpdate) == <<seen[n].id, isUpdate, seen[n].value, seen[n].time>>
         IN  ExpectedMatches(seen, n - 1) \o
             (IF ~seen[n].passing THEN << >>
              ELSE IF before = {} THEN << call(FALSE) >>
              ELSE IF \A j \in before : seen[j].time < seen[n].time THEN << call(TRUE) >>
              ELSE << >>)

\* C13: for filter-passing valued releases OnMatch is called exactly when
\* the aggregator inserts or replaces an entry: IsUpdate=false for the first
\* release of a contract, IsUpdate=true for a release strictly later than
\* every earlier one of the contract, and no call for a release that is
\* dropped (older or equal releaseDate).
C13_OnMatchOnInsertOrReplace ==
    agg.hasOnMatch =>
        \A seen \in {Seen} : matchCalls = ExpectedMatches(seen, Len(processed))

\* C13 witness: one contract was inserted, then replaced by a later release
\* (IsUpdate=true), then received a release of equal date that was dropped
C13_Witness ==
    LET seen == Seen
    IN  /\ Len(processed) = 3
        /\ \A i \in 1..3 : seen[i].passing /\ seen[i].id = seen[1].id
        /\ seen[1].time < seen[2].time /\ seen[3].time = seen[2].time
        /\ Len(matchCalls) = 2
        /\ ~matchCalls[1][2] /\ matchCalls[2][2]

\* a decimal digit
IsDigit(c) == c \in {"0","1","2","3","4","5","6","7","8","9"}

\* the id without a trailing amendment suffix: "-A" followed by digits only,
\* up to the end of the id
StripAmendmentSuffix(id) ==
    LET cuts == { k \in 1..(Len(id) - 2) :
                    /\ id[k] = "-" /\ id[k + 1] = "A"
                    /\ \A j \in (k + 2)..Len(id) : IsDigit(id[j]) }
    IN  IF cuts = {} THEN id
        ELSE SubSeq(id, 1, (CHOOSE k \in cuts : \A l \in cuts : k <= l) - 1)

\* contracts[0].id, or the first amendment's id when that is empty
RawContractID(rel) ==
    LET c0 == rel.Contracts[1]
    IN  IF c0.ID = EmptyStr /\ Len(c0.Amendments) > 0 THEN c0.Amendments[1].ID ELSE c0.ID

\* canonicalContractID of a release built around the id alone
CanonicalOfID(id) ==
    canonicalContractID(Release(<<"r">>, 1, <<sContract>>, << >>,
                            <<Contract(id, EmptyStr, TRUE, 100, << >>)>>)).id

\* C14: canonicalContractID takes contracts[0].id (the first amendment's id
\* when that is empty) and removes only a trailing suffix -A<digits>; an id
\* without such a suffix is returned unchanged; canonicalising twice equals
\* canonicalising once; so two processed releases share an aggregate entry
\* exactly when their ids are equal after removing the suffix.
C14_CanonicalIdStripsAmendmentSuffix ==
    \A i \in 1..Len(processed) :
        LET rel == processed[i]
            cid == canonicalContractID(rel)
        IN  (Len(rel.Contracts) > 0 /\ RawContractID(rel) # EmptyStr) =>
                /\ cid.ok
                /\ cid.id = StripAmendmentSuffix(RawContractID(rel))
                /\ CanonicalOfID(cid.id) = cid.id

\* the amount the claim resolves for a release with a contract
ClaimedValue(rel) ==
    LET contract == rel.Contracts[1]
        tagged == \E t \in 1..Len(rel.Tag) : rel.Tag[t] = sContractAmendment
        first == contract.Amendments[1]
        amount == IF contract.HasValue THEN contract.Amount ELSE 0
    IN  IF ~tagged \/ Len(contract.Amendments) = 0 THEN amount
        ELSE IF first.AmendedValue > 0 THEN first.AmendedValue
        ELSE IF first.ContractAmendmentValue > 0 THEN amount + first.ContractAmendmentValue
        ELSE amount

\* C15: releaseValue is the first amendment's amendedvalue when the release
\* is tagged contractAmendment and that value is > 0, else the contract's
\* value.amount plus contractamendmentvalue when that is > 0, otherwise the
\* contract's value.amount; the amendments of a release not tagged
\* contractAmendment are ignored.
C15_ReleaseValueResolution ==
    \A seen \in {Seen} : \A i \in 1..Len(processed) :
        LET rel == processed[i]
        IN  Len(rel.Contracts) > 0 =>
                /\ seen[i].value = ClaimedValue(rel)
                /\ (seen[i].passing /\ i = WinnerIdx(seen, seen[i].id)) =>
                       agg.aggregates[seen[i].id].Value = ClaimedValue(rel)

\* C15 witness: a release tagged contract only, carrying an amendment with
\* an amended value, was aggregated with its contract's value, and a release
\* tagged contractAmendment with its contract value plus the amendment value
C15_Witness ==
    \E i, j \in 1..Len(processed) :
        LET r1 == processed[i]
            r2 == processed[j]
        IN  /\ Seen[i].passing /\ Seen[j].passing
            /\ r1.Tag = <<sContract>> /\ Len(r1.Contracts[1].Amendments) > 0
            /\ r1.Contracts[1].Amendments[1].AmendedValue > 0
            /\ agg.aggregates[Seen[i].id].Value = r1.Contracts[1].Amount
            /\ r2.Tag = <<sContractAmendment>>
            /\ r2.Contracts[1].Amendments[1].AmendedValue = 0
            /\ r2.Contracts[1].Amendments[1].ContractAmendmentValue > 0
            /\ Seen[j].value = r2.Contracts[1].Amount
                                 + r2.Contracts[1].Amendments[1].ContractAmendmentValue

\* the release handed to the process call of this step
Handed == processed'[Len(processed')]

\* what the claim says of every release: it reaches the total or a handler
\* only if it is valued, and every summary handed out has a contract id and
\* a positive amount
ContributesOnlyIfValued ==
    /\ (agg'.calls # agg.calls \/ total(agg') # total(agg)) => Valued(Handed)
    /\ \A k \in 1..Len(agg'.calls) :
           /\ agg'.calls[k].summary.ContractID # EmptyStr
           /\ agg'.calls[k].summary.Amount > 0

\* C16 as stated: a federal release contributes to the total, to OnMatch or
\* to OnAnyMatch only if it is tagged contract or contractAmendment, has a
\* non-empty canonical contract id and a resolved value > 0; every
\* MatchSummary emitted has a non-empty ContractID and Amount > 0; and the
\* total is never decreased by a release.
C16_TotalNeverDecreases ==
    [][ContributesOnlyIfValued /\ total(agg') >= total(agg)]_vars

\* C16 amended: as above, but a release lowers the total only by replacing
\* the entry of its own contract with a smaller value, and then by exactly
\* the difference; a release that inserts a contract raises the total by
\* its value.
C16_OnlyValuedContribute_ReplacementMayLower ==
    [][/\ ContributesOnlyIfValued
       /\ total(agg') >= 0
       /\ LET id == canonicalContractID(Handed).id
          IN  IF agg'.aggregates = agg.aggregates THEN total(agg') = total(agg)
              ELSE IF id \in DOMAIN agg.aggregates
              THEN total(agg') - total(agg)
                       = releaseValue(Handed).v - agg.aggregates[id].Value
              ELSE total(agg') - total(agg) = releaseValue(Handed).v
      ]_vars

\* C16 witness: a later release replaced the entry of its contract with a
\* smaller value, and a release that is not valued was processed
C16_Witness ==
    LET seen == Seen
    IN  /\ \E i, j \in DOMAIN seen :
               /\ i < j /\ seen[i].passing /\ seen[j].passing
               /\ seen[i].id = seen[j].id
               /\ seen[i].time < seen[j].time /\ seen[j].value < seen[i].value
               /\ agg.aggregates[seen[j].id].Value = seen[j].value
        /\ \E k \in DOMAIN seen : ~seen[k].valued
(***************************************************************************)
(* Properties of the cache.                                                *)
(***************************************************************************)
LastCall == history[Len(history)]

\* a step that is one call: it appends its entry to history
CallStep == Len(history') = Len(history) + 1
NewCall == history'[Len(history')]

\* calls i and i+1 are RunSearchWithCache calls that returned no error, the
\* first after a complete run of the source
SearchPair(i) ==
    /\ history[i].op = "search" /\ history[i + 1].op = "search"
    /\ ~history[i].err /\ ~history[i + 1].err
    /\ history[i].end = "ok"

SameFilters(p, q) ==
    /\ p.Keyword = q.Keyword /\ p.Company = q.Company /\ p.Agency = q.Agency
    /\ p.Source = q.Source /\ p.DateType = q.DateType
    /\ p.LookbackPeriod = q.LookbackPeriod

\* C3: two consecutive RunSearchWithCache calls with an identical request
\* and no upstream change return identical totals, and the second requests
\* nothing from the API, the first having run the real source pipeline.
C3_RepeatedCallIsIdempotent ==
    \A i \in 1..(Len(history) - 1) :
        ( /\ SearchPair(i)
          /\ history[i].req = history[i + 1].req
          /\ history[i].published = history[i + 1].published )
        => /\ history[i + 1].total = history[i].total
           /\ history[i + 1].requested = {}

\* RunSearch over the whole range against an empty cache: every window is
\* fetched and every result consumed
ColdTotal(req, upstream) ==
    LET plan == federalPlan(req, FALSE, << >>, Today)
        all == [i \in 1..Len(plan.windows) |-> i]
    IN  runFederalSearch(req, FALSE, FALSE, plan, upstream,
                         [order |-> all, end |-> "ok"]).total

\* C4: RunSearchWithCache over rangeA and then over rangeA extended by new
\* months returns, for the second call, the total of a cold RunSearch over
\* the extended range, the upstream changes being appends only.
C4_ExtendedRangeEqualsColdRun ==
    \A i \in 1..(Len(history) - 1) :
        ( /\ SearchPair(i)
          /\ history[i + 1].end \in {"ok", "none"}
          /\ SameFilters(history[i].req, history[i + 1].req)
          /\ history[i].req.StartDate = history[i + 1].req.StartDate
          /\ history[i].req.EndDate < history[i + 1].req.EndDate )
        => history[i + 1].total
             = ColdTotal(history[i + 1].req, SubSeq(Feed, 1, history[i + 1].published))

\* C5: when the lake query reports a hit and every window of the resolved
\* range is cached, RunSearchWithCache returns the formatted cached total
\* with cacheHit true, runs no source, and leaves the parts, the catalog and
\* the checkpoints as they were.
C5_ShortCircuitReturnsCachedTotal ==
    [][ \A req \in Requests :
          LET rd == resolveDates(req.StartDate, req.EndDate,
                                 resolveLookbackPeriod(req.LookbackPeriod), Today)
              q == queryCache(lakeFiles, catalog,
                              [req EXCEPT !.StartDate = rd.start, !.EndDate = rd.end,
                                          !.LookbackPeriod =
                                              resolveLookbackPeriod(req.LookbackPeriod)],
                              Today)
          IN  ( /\ CallStep /\ NewCall.op = "search" /\ NewCall.req = req
                /\ q.matched
                /\ windowsCached(lakeFiles, req.Source, rd.start, rd.end, Today) )
              => /\ NewCall.total = formatMoneyDecimal(q.total)
                 /\ NewCall.hit /\ ~NewCall.err
                 /\ NewCall.end = "none" /\ NewCall.requested = {}
                 /\ UNCHANGED <<lakeFiles, catalog, checkpoints>> ]_vars

\* a call took the short circuit over a lake that holds money and a
\* checkpoint for its key
C5_Witness ==
    /\ history # << >>
    /\ LastCall.op = "search" /\ LastCall.end = "none" /\ LastCall.hit
    /\ LastCall.total.cents > 0
    /\ DOMAIN checkpoints # {}

\* C6: under one key the stored checkpoint never moves backwards, whatever
\* the order of the end dates saved by RunSearchWithCache and the cache
\* command.
C6_CheckpointNeverMovesBack ==
    [][ \A k \in DOMAIN checkpoints :
          k \in DOMAIN checkpoints' /\ checkpoints'[k] >= checkpoints[k] ]_vars

\* C7: a call whose source run did not complete without error (an error of
\* the API, a timeout, a cancellation), a call that returned an error, and a
\* call that took the short circuit leave the checkpoints as they were.
C7_CheckpointOnlyAfterCleanRun ==
    [][ (CallStep /\ (NewCall.err \/ NewCall.end # "ok"))
        => UNCHANGED checkpoints ]_vars

\* calls i and i+1 are the same RunSearchWithCache request, the first
\* failing after it consumed a window, the second completing its run
FailedThenRetried(i) ==
    /\ history[i].op = "search" /\ history[i + 1].op = "search"
    /\ history[i].req = history[i + 1].req
    /\ history[i].err /\ history[i].consumed # {}
    /\ ~history[i + 1].err /\ history[i + 1].end = "ok"

\* the windows of the range a request asks for
WindowsOfRequest(req) ==
    LET rd == resolveDates(req.StartDate, req.EndDate,
                           resolveLookbackPeriod(req.LookbackPeriod), Today)
        ws == splitDateWindows(rd.start, rd.end, maxWindowDays)
    IN  { ws[k] : k \in 1..Len(ws) }

\* a complete part of the lake holds a row of the release
LakeHolds(rel) ==
    \E path \in DOMAIN lakeFiles :
        /\ lakeFiles[path].complete
        /\ \E k \in 1..Len(lakeFiles[path].rows) :
               /\ lakeFiles[path].rows[k].ContractID = canonicalContractID(rel).id
               /\ lakeFiles[path].rows[k].ReleaseEpoch = parseReleaseTime(rel.Date)

\* C26: when a RunSearchWithCache run fails after some of its windows
\* succeeded, a following identical run fetches every window the failed run
\* did not fetch successfully, and once it has succeeded the lake holds the
\* valued releases of the whole requested range.
C26_RetryAfterFailureCompletesLake ==
    \A i \in 1..(Len(history) - 1) :
        FailedThenRetried(i) =>
            /\ \A w \in WindowsOfRequest(history[i].req) \ history[i].consumed :
                   w \in history[i + 1].requested
            /\ i + 1 = Len(history) =>
                   \A k \in 1..history[i + 1].published :
                       ( /\ Valued(Feed[k])
                         /\ history[i].req.StartDate <= parseReleaseTime(Feed[k].Date)
                         /\ parseReleaseTime(Feed[k].Date) <= history[i].req.EndDate )
                       => LakeHolds(Feed[k])

\* C27: when the source run fails partway through RunSearchWithCache, every
\* match delivered to the lake sinks before the failure is in a complete
\* part that has its catalog row (every writer the call opened is closed)
\* by the time the call returns the error.
C27_FailedRunFlushesItsMatches ==
    ( /\ history # << >>
      /\ LastCall.op = "search" /\ LastCall.err /\ LastCall.consumed # {} )
    => \A path \in DOMAIN lakeFiles :
           lakeFiles[path].complete /\ path \in DOMAIN catalog

\* the runs of the cache command so far
CacheCommandRuns == { k \in 1..Len(history) : history[k].op = "cache" }

\* the window lies within the range the flags --start-date and --end-date name
WithinFlags(win, flags) == flags.StartDate <= win.start /\ win.end <= flags.EndDate

\* C38: the cache command never asks the source for dates outside the
\* requested [start-date, end-date]: whatever checkpoint is stored for the
\* key, also one later than end-date, every window the source fetches lies
\* within the requested range.
C38_CacheCommandStaysInRange ==
    \A k \in CacheCommandRuns :
        \A win \in history[k].requested : WithinFlags(win, history[k].req)

\* the same for the calls of RunSearchWithCache
SearchStaysInRange ==
    \A k \in 1..Len(history) :
        history[k].op = "search" =>
            \A win \in history[k].requested : WithinFlags(win, history[k].req)
(***************************************************************************)
(* Properties of concurrent calls.                                         *)
(***************************************************************************)
\* C8: RunSearch (and RunSearchWithCache through it) is safe to call from
\* several goroutines: no two calls are ever inside an unsynchronized write
\* of the source registry at once, the process is not ended by the runtime,
\* and each call returns what it returns when it runs alone.
C8_ConcurrentCallsAreSafe ==
    /\ \A g \in Goroutines : ~(caller[g].pc = "writing" /\ OtherWriting(g))
    /\ ~crashed
    /\ \A g \in Goroutines :
           caller[g].pc = "done"
           => caller[g].result = runSearchResult(RegisteredAll, caller[g].source)

\* the source ids the README documents for --source (federal, nsw, sa, vic,
\* wa), some in another case or with surrounding blanks
DocumentedSourceIDs ==
    { sFederal, <<" ","n","s","w"," ">>, <<"V","I","C">>, <<"s","a">>, <<" ","w","a">> }

\* C20: resolveSource("") returns the federal source; resolveSource
\* succeeds, after case and whitespace normalisation, for each documented
\* id federal, nsw, vic, sa and wa once the registry is initialised; any
\* other id fails with an error listing the available ids; and re-running
\* registration leaves the registry's id set unchanged.
C20_DocumentedSourcesResolve ==
    /\ ~resolveSource(sourceRegistry, EmptyStr).err
    /\ resolveSource(sourceRegistry, EmptyStr).src = sFederal
    /\ \A id \in DocumentedSourceIDs :
           /\ ~resolveSource(sourceRegistry, id).err
           /\ resolveSource(sourceRegistry, id).src = ToLower(TrimSpace(id))
    /\ resolveSource(sourceRegistry, sQld).err
    /\ resolveSource(sourceRegistry, sQld).available = DOMAIN sourceRegistry
    /\ DOMAIN sourceRegistry = DOMAIN RegisteredAll

(***************************************************************************)
(* Properties of the federal run.                                          *)
(***************************************************************************)
\* C9: when the request context is cancelled, or its deadline passes, while
\* windows of a federal run are still being fetched, the run returns an
\* error (the context's), never a formatted total of the windows that
\* happened to finish.
C9_AbortedRunReturnsError ==
    (fetchRet # "running" /\ parentErr # "nil" /\ leftAtAbort # {})
    => federalReturn.err # "nil"

\* some worker sent the error of a failed fetch
FatalSent == \E i \in Windows : worker[i].pc \in {"send", "done"} /\ worker[i].err = "fatal"

\* C10: when a window's fetch fails with a fatal error the shared context is
\* cancelled, from then on no window sends an HTTP request, and fetchAll
\* returns the fatal error, not nil and not a cancellation error, in
\* whatever order the results arrive (the caller's context being live).
C10_FatalErrorCancelsAndIsReturned ==
    [][ /\ FatalSent' => ctxErr' # "nil"
        /\ ctxErr # "nil" => httpSent' = httpSent
        /\ (FatalSent' /\ parentErr' = "nil" /\ fetchRet' # "running")
           => fetchRet' = "fatal" ]_vars

\* a run of two windows or more returned the fatal error of one window
\* while another, cancelled before it started, never sent its request
C10_Witness ==
    /\ fetchRet = "fatal" /\ parentErr = "nil"
    /\ \E i \in Windows : worker[i].err = "fatal" /\ i \in httpSent
    /\ \E j \in Windows : worker[j].pc = "done" /\ worker[j].err = "canceled"
                          /\ j \notin httpSent

\* C24: for every window for which the ShouldFetchWindow gate returns false
\* the federal engine starts no worker and sends no HTTP request; only the
\* windows for which the gate returns true, or all windows when no gate is
\* set, are fetched (all of them in a run that returns nil under a live
\* context).
C24_GatedWindowsAreNotFetched ==
    /\ \A i \in Windows :
           worker[i].gate = "skip" => worker[i].pc = "skipped" /\ i \notin httpSent
    /\ \A i \in httpSent : worker[i].gate \in {"fetch", "none"}
    /\ (fetchRet = "nil" /\ parentErr = "nil") =>
           \A i \in Windows : worker[i].gate \in {"fetch", "none"} => i \in httpSent

\* C24 witness: a run of two windows returned nil after fetching the one
\* the gate let through and skipping the other
C24_Witness ==
    /\ fetchRet = "nil" /\ parentErr = "nil"
    /\ \E i, j \in Windows :
           /\ worker[i].gate = "skip" /\ worker[i].pc = "skipped" /\ i \notin httpSent
           /\ worker[j].gate = "fetch" /\ worker[j].pc = "done" /\ j \in httpSent

\* the windows whose worker holds a slot of sem: from the send into sem to
\* the deferred receive, fetchWindow running in between
HoldingSlot == { i \in Windows : worker[i].pc \in {"acquired", "inflight", "send"} }
InFetchWindow == { i \in Windows : worker[i].pc \in {"acquired", "inflight"} }

\* C28: at every instant the number of windows whose fetch is in flight is
\* at most concurrencyLimit() = max(1, maxConcurrent), and every acquired
\* slot is released when its worker finishes, whether it succeeded, failed
\* or was cancelled.
C28_InFlightWithinLimit ==
    /\ \A maxConcurrent \in 0..MaxConcurrent :
           concurrencyLimit(maxConcurrent)
             = IF maxConcurrent > 1 THEN maxConcurrent ELSE 1
    /\ limit \in 1..MaxConcurrent
    /\ Cardinality(InFetchWindow) <= limit
    /\ sem = Cardinality(HoldingSlot)
    /\ (\A i \in Windows : worker[i].pc \in {"done", "skipped"}) => sem = 0

\* C28 witness: with one slot and two windows, the second window is being
\* fetched after the first, which failed, gave its slot back
C28_Witness ==
    /\ limit = 1 /\ sem = 1
    /\ \E i, j \in Windows :
           /\ worker[i].pc = "done" /\ worker[i].err = "fatal" /\ i \in httpSent
           /\ worker[j].pc = "acquired"

\* the windows the loop skipped
SkippedWindows == { i \in Windows : worker[i].pc = "skipped" }

\* C29: OnProgress is called with a constant total equal to the number of
\* windows and with completed = 1, 2, ... increasing by one; each skipped
\* window and each successfully fetched window is counted exactly once;
\* completed never exceeds total; and a run that ends without error ends
\* with a call where completed = total.
C29_ProgressCountsEveryWindow ==
    /\ \A k \in 1..Len(progress) :
           progress[k].completed = k /\ progress[k].total = Cardinality(Windows)
    /\ Len(progress) <= Cardinality(Windows)
    /\ Len(progress) = Cardinality(SkippedWindows) + Len(processed)
    /\ fetchRet = "nil" =>
           /\ progress # << >>
           /\ progress[Len(progress)].completed = Cardinality(Windows)

\* fetchAll has returned, every worker has sent its result and exited, no
\* slot of sem is held and resCh is closed
FetchAllOver ==
    /\ fetchRet # "running"
    /\ \A i \in Windows : worker[i].pc \in {"done", "skipped"}
    /\ sem = 0
    /\ resClosed

\* C39: fetchAll always terminates: for any number of windows, any
\* concurrency limit >= 1 and any pattern of success, failure and
\* cancellation of the windows, also when fetchAll returns early on the
\* first error, every worker eventually sends its result and exits without
\* blocking on the semaphore or on resCh, and resCh is closed.
C39_FetchAllTerminates == <>[]FetchAllOver

\* C39 witness: fetchAll has returned on the first error, nothing receives
\* from resCh any more, and a worker has its result still to send
C39_Witness ==
    /\ fetchRet \notin {"running", "nil"}
    /\ ~resClosed
    /\ \E i \in Windows : At(i, "send")
(***************************************************************************)
(* Properties of the lake.                                                 *)
(***************************************************************************)
\* first days of the months a window can start in: January, February, July
\* and October 2024
WindowStartDays == {1, 32, 183, 275}

\* a part lies in the month partition of source for the month of ts:
\* source=S/fy=.../month=YYYY-MM/**
InMonthOf(path, source, ts) ==
    /\ path.dir.source = source
    /\ path.dir.month = <<YearOf(ts), MonthOf(ts)>>

\* C11: shouldFetchWindow(source, win) is false exactly when a part exists
\* under the source's partition of the month containing win.start, parts of
\* another source or month never make it false, and windowsCached is true
\* exactly when shouldFetchWindow is false for every window of the range.
C11_FetchSkippedIffMonthHasPart ==
    \A source \in {sFederal, <<"v","i","c">>} : \A d \in WindowStartDays :
        LET win == dateWindow(Midnight(d), AddDays(Midnight(d), maxWindowDays))
            ws == splitDateWindows(Midnight(d), Midnight(d + 40), maxWindowDays)
        IN  /\ shouldFetchWindow(lakeFiles, source, win, Today)
                = ~(\E path \in DOMAIN lakeFiles : InMonthOf(path, source, win.start))
            /\ windowsCached(lakeFiles, source, Midnight(d), Midnight(d + 40), Today)
                = (\A i \in 1..Len(ws) :
                       ~shouldFetchWindow(lakeFiles, source, ws[i], Today))

\* queries of queryCache: a source, the company filter or none, an explicit
\* date range (January 2024, or the whole of 2024) and a LookbackPeriod
LakeQueries ==
    { [Request(EmptyStr, company, EmptyStr, Midnight(1), end)
          EXCEPT !.Source = source, !.LookbackPeriod = lookback] :
        source \in {EmptyStr, <<"v","i","c">>}, company \in {EmptyStr, skpmg},
        end \in {Midnight(32), Midnight(366)}, lookback \in {1, defaultLookbackPeriod} }

\* the rows of the complete parts of the lake, as a bag: (path, index)
LakeRowIds ==
    UNION { { <<path, i>> : i \in 1..Len(lakeFiles[path].rows) } :
              path \in { p \in DOMAIN lakeFiles : lakeFiles[p].complete } }

\* the row is of the requested source, lies within [StartDate, EndDate] and
\* passes the substring filters
RowWanted(row, q) ==
    /\ row.Source = normalizeSourceID(q.Source)
    /\ q.StartDate <= row.ReleaseEpoch /\ row.ReleaseEpoch <= q.EndDate
    /\ Contains(ToLower(row.Supplier), ToLower(q.Company))
    /\ Contains(ToLower(row.Agency), ToLower(q.Agency))
    /\ Contains(ToLower(JoinSp(JoinSp(JoinSp(row.Supplier, row.Title), row.Agency),
                               row.ContractID)), ToLower(q.Keyword))

RECURSIVE WantedSum(_, _)
WantedSum(ids, q) ==
    IF ids = {} THEN 0
    ELSE LET id == CHOOSE x \in ids : TRUE
             row == lakeFiles[id[1]].rows[id[2]]
         IN  (IF RowWanted(row, q) THEN row.Amount ELSE 0) + WantedSum(ids \ {id}, q)

\* C12: queryCache returns exactly the sum of the amounts of the lake rows
\* of the requested source whose release time lies within [StartDate,
\* EndDate] and that pass the keyword/company/agency filters, whatever
\* LookbackPeriod accompanies the explicit range and whenever it is asked
\* (today, or a year from now).
C12_QuerySumsRowsInRange ==
    \A q \in LakeQueries : \A now \in {Today, AddYears(Today, 1)} :
        queryCache(lakeFiles, catalog, q, now).total = WantedSum(LakeRowIds, q)


\* the days a requested range can start on: the first and the 15th of
\* January 2024, the first of February, 18 July
GateStartDays == {1, 15, 32, 200}

\* C25: whenever the gate skips a window, every date of the window lies in
\* a month that has a part for the source, so that skipping never leaves a
\* date of an uncached month unfetched.
C25_SkippedWindowLiesInCachedMonths ==
    \A d \in GateStartDays :
        LET ws == splitDateWindows(Midnight(d), Midnight(d + 40), maxWindowDays)
        IN  \A i \in 1..Len(ws) :
                ~shouldFetchWindow(lakeFiles, sFederal, ws[i], Today) =>
                    \A t \in ws[i].start..ws[i].end :
                        \E path \in DOMAIN lakeFiles : InMonthOf(path, sFederal, t)

\* the parts a step leaves as they were: same path, same rows
PartKept(path) == path \in DOMAIN lakeFiles' /\ lakeFiles'[path] = lakeFiles[path]

\* C33: a part that has been written is never truncated or overwritten:
\* every newSink creates a file at a path that did not exist before, for
\* any two sinks opened for the same partition by consecutive runs, also
\* when both are opened within the same clock second.
C33_WrittenPartsAreKept ==
    [][\A path \in DOMAIN lakeFiles : lakeFiles[path].complete => PartKept(path)]_vars

\* the same for the parts of an earlier second
C33_PartsOfEarlierSecondsAreKept ==
    [][\A path \in DOMAIN lakeFiles :
          lakeFiles[path].complete /\ path.stamp < clock => PartKept(path)]_vars
(***************************************************************************)
(* Properties of the pure helpers.                                         *)
(***************************************************************************)
\* half days in k days
HalfDays(k) == 2 * k

\* C17: for start < end, splitDateWindows(start, end, k) returns windows
\* w1..wn with w1.start = start, wn.end = end, wi.end = w(i+1).start, each
\* window non-empty and at most k days long (k > 0); for end <= start it
\* returns exactly the one window {start, end}.
C17_WindowsTileTheRange ==
    (applied # << >> /\ applied.windowDays > 0) =>
        LET ws == applied.windows
            n == Len(ws)
        IN  IF applied.start < applied.end
            THEN /\ n >= 1
                 /\ ws[1].start = applied.start
                 /\ ws[n].end = applied.end
                 /\ \A i \in 1..(n - 1) : ws[i].end = ws[i + 1].start
                 /\ \A i \in 1..n :
                        /\ ws[i].start < ws[i].end
                        /\ ws[i].end - ws[i].start <= HalfDays(applied.windowDays)
            ELSE ws = <<dateWindow(applied.start, applied.end)>>

\* C17 witness: a range split into three windows or more, the last one
\* shorter than the others
C17_Witness ==
    /\ applied # << >> /\ applied.windowDays > 0
    /\ Len(applied.windows) >= 3
    /\ LET w == applied.windows[Len(applied.windows)]
       IN  w.end - w.start < HalfDays(applied.windowDays)
(***************************************************************************)
(* Properties of doRequest.                                                *)
(***************************************************************************)
IsAttempt(e) == e.ev = "attempt"
IsSleep(e) == e.ev = "sleep"
attempts == SelectSeq(reqLog, IsAttempt)
sleeps == SelectSeq(reqLog, IsSleep)

RECURSIVE Pow2(_)
Pow2(n) == IF n = 0 THEN 1 ELSE 2 * Pow2(n - 1)

\* the response is the decoded payload of a 200
IsPayload(resp) == resp.status = 200 /\ resp.body = "ok"

\* C18: doRequest makes at most 5 attempts for one URL; before retry n
\* (n = 1..4) it waits 2^(n-1) seconds; it returns the decoded payload at
\* the first 200 response and makes no attempt after it; after the fifth
\* failed attempt it returns the last error without sleeping again.
C18_FiveAttemptsDoublingBackoff ==
    /\ Len(attempts) <= 5
    /\ Len(sleeps) <= 4
    \* attempts and sleeps alternate, the n-th sleep lasting 2^(n-1) seconds
    /\ \A i \in 1..Len(reqLog) :
           IF i % 2 = 1 THEN IsAttempt(reqLog[i])
           ELSE IsSleep(reqLog[i]) /\ reqLog[i].d = Pow2(i \div 2 - 1)
    /\ \A i \in 1..Len(reqLog) :
           (IsAttempt(reqLog[i]) /\ IsPayload(reqLog[i].resp)) =>
               i = Len(reqLog) /\ reqPc = "done" /\ reqRet = <<"payload">>
    /\ Len(attempts) = 5 =>
           /\ reqPc = "done"
           /\ IsAttempt(reqLog[Len(reqLog)])
           /\ ~IsPayload(attempts[5].resp) => reqRet = errOf(attempts[5].resp)

\* C18 witness: the API answered 500, 500, 200; three attempts were made
\* with sleeps of 1 s and 2 s and the payload was returned
C18_Witness ==
    /\ reqLog = <<Sent(Response(500, "none")), Slept(1), Sent(Response(500, "none")),
                  Slept(2), Sent(Response(200, "ok"))>>
    /\ reqPc = "done" /\ reqRet = <<"payload">>

\* the claim's retriable outcomes: a transport error, 429 or 5xx
Retriable(resp) ==
    resp.status = 0 \/ resp.status = 429 \/ resp.status \in 500..599

\* C19: doRequest retries only after a transport error or an HTTP 429 or
\* 5xx; any other non-success status, a decode failure or a decoded
\* errorCode # 0 ends the request at once with an error and no further
\* attempt; a cancellation of the context during a backoff sleep ends the
\* request with the context's error without another attempt.
C19_RetryOnlyTransientFailures ==
    [][/\ \A i \in 1..Len(reqLog') :
              IsAttempt(reqLog'[i]) =>
                  /\ i < Len(reqLog') => Retriable(reqLog'[i].resp)
                  /\ (~Retriable(reqLog'[i].resp) /\ ~IsPayload(reqLog'[i].resp)) =>
                         /\ i = Len(reqLog') /\ reqPc' = "done"
                         /\ reqRet' = errOf(reqLog'[i].resp)
       /\ (reqPc = "sleep" /\ reqCtx # "nil") =>
              /\ reqPc' = "done" /\ reqRet' = <<reqCtx>>
              /\ reqLog' = reqLog
      ]_vars

\* C19 witness: a 429 was retried after a sleep and the 404 that followed
\* ended the request with its error
C19_Witness ==
    /\ reqLog = <<Sent(Response(429, "none")), Slept(1), Sent(Response(404, "none"))>>
    /\ reqPc = "done" /\ reqRet = <<"status", 404>>
(***************************************************************************)
(* Properties of the catalog.                                              *)
(***************************************************************************)
LastOp == history[Len(history)]

\* the last operation ran rebuildIndex and rebuildIndex returned nil
RebuildIndexReturnedNil ==
    /\ history # << >>
    /\ \/ LastOp.op = "reindex" /\ ~LastOp.err
       \/ LastOp.op = "search" /\ LastOp.how \in {"reindexed", "reindexed after ctx ended"}

\* the query of the whole of 2024 for the federal source
IndexQuery ==
    [Request(EmptyStr, EmptyStr, EmptyStr, Midnight(1), Midnight(366))
        EXCEPT !.LookbackPeriod = defaultLookbackPeriod]

\* the catalog without the rows whose part is not in the directory
RowsOfPresentParts ==
    [path \in DOMAIN catalog \cap DOMAIN lakeFiles |-> catalog[path]]

\* C21: after rebuildIndex, parquet_files holds exactly one row for every
\* part present under lake/ (orphaned parts included) and no row whose path
\* does not exist; and queryTotals skips a row whose part is missing
\* instead of failing or counting it.
C21_ReindexReconcilesCatalog ==
    /\ RebuildIndexReturnedNil => DOMAIN catalog = DOMAIN lakeFiles
    /\ queryTotals(lakeFiles, catalog, IndexQuery, Today)
         = queryTotals(lakeFiles, RowsOfPresentParts, IndexQuery, Today)

\* this step is a reindex-lake command that follows another one which
\* returned no error, with no search and no removal in between
ReindexRepeated ==
    /\ history # << >>
    /\ LastOp.op = "reindex" /\ ~LastOp.err
    /\ Len(history') = Len(history) + 1
    /\ history'[Len(history')].op = "reindex"

\* C22 as stated: running rebuildIndex twice in a row with no change to the
\* lake directory yields the same parquet_files content as running it once.
C22_ReindexIsIdempotent ==
    [][ReindexRepeated => catalog' = catalog]_vars

\* the table without its column created_at
WithoutCreatedAt(table) ==
    [path \in DOMAIN table |->
        [source |-> table[path].source, fy |-> table[path].fy,
         agency_key |-> table[path].agency_key,
         company_key |-> table[path].company_key,
         row_count |-> table[path].row_count]]

\* C22, amended: running rebuildIndex twice in a row with no change to the
\* lake directory yields the same rows (path, source, fy, agency_key,
\* company_key, row_count) as running it once; created_at is the time of
\* the latest run.
C22_ReindexTwiceKeepsRowsButCreatedAt ==
    [][ReindexRepeated => WithoutCreatedAt(catalog') = WithoutCreatedAt(catalog)]_vars

\* C22 witness: a search wrote a part, the table was rebuilt, a second
\* passed, and the table was rebuilt again with a later created_at
C22_Witness ==
    /\ Len(history) = 3
    /\ history[1].op = "search" /\ history[2].op = "reindex" /\ history[3].op = "reindex"
    /\ catalog # << >> /\ DOMAIN catalog = DOMAIN lakeFiles
    /\ \A path \in DOMAIN catalog :
           catalog[path].created_at = 1 /\ path.stamp = 0

(***************************************************************************)
(* Properties of the partition of a match.                                 *)
(***************************************************************************)
\* C23: the lake partition of a match is a function of (source,
\* releaseDate, agency, supplier) alone; an empty or whitespace-only agency
\* yields agency=unknown_agency and an empty or whitespace-only supplier
\* yields company=unknown_company, both in partitionKeyLake and in the
\* directory newSink creates.
C23_PartitionOfMatch ==
    applied # << >> =>
        /\ \A now \in PartNows :
               /\ partitionKeyLake(applied.releaseDate, applied.source, applied.agency,
                                   applied.supplier, now) = applied.key
               /\ sinkDir(applied.source, applied.releaseDate, applied.agency,
                          applied.supplier, now) = applied.dir
        /\ TrimSpace(applied.agency) = EmptyStr =>
               applied.key.agency = sUnknownAgency /\ applied.dir.agency = sUnknownAgency
        /\ TrimSpace(applied.supplier) = EmptyStr =>
               applied.key.company = sUnknownCompany /\ applied.dir.company = sUnknownCompany

(***************************************************************************)
(* Properties of the progress calls of runNswWithCollyParallel.            *)
(***************************************************************************)
\* no call of OnProgress reports a smaller count than an earlier call
NswCallsNeverDecrease ==
    \A j \in 1..Len(nswCalls) : \A k \in j..Len(nswCalls) :
        nswCalls[j].completed <= nswCalls[k].completed

\* each completion is reported with its own count: the k-th call reports k
NswCallsReportOwnCount ==
    \A k \in 1..Len(nswCalls) : nswCalls[k].completed = k

\* no call reports more completed windows than there are windows
NswCallsWithinTotal ==
    \A k \in 1..Len(nswCalls) :
        /\ nswCalls[k].total = main.totalWindows
        /\ nswCalls[k].completed <= nswCalls[k].total

\* C30: in runNswWithCollyParallel, under every interleaving of the window
\* workers, the completed values passed to OnProgress never decrease from
\* one call to the next, each completion is reported with its own count
\* (the k-th call reports k), and no count exceeds the number of windows.
C30_NswProgressMonotonicInCompletionOrder ==
    /\ NswCallsNeverDecrease
    /\ NswCallsReportOwnCount
    /\ NswCallsWithinTotal

\* the sum of the amounts of the contracts in a set of contract ids
RECURSIVE NswSumOf(_)
NswSumOf(ids) ==
    IF ids = {} THEN 0
    ELSE LET id == CHOOSE x \in ids : TRUE
         IN  NswAmountOf(id) + NswSumOf(ids \ {id})

\* nswSource.Run has returned a total
NswReturnedTotal == main.pc = "returned" /\ main.ret = "total"

\* no contract id was handed to OnAnyMatch, or to OnMatch, more than once
NswDeliveredOnce ==
    /\ \A id \in DOMAIN nswAny : nswAny[id] <= 1
    /\ \A id \in DOMAIN nswMatch : nswMatch[id] <= 1

\* the returned total is the sum of the amounts of the summaries handed to
\* OnMatch, each contract counted once
NswTotalIsSumOfMatches ==
    NswReturnedTotal => main.retTotal = formatMoneyDecimal(NswSumOf(DOMAIN nswMatch))

\* C31: in an NSW Run whose windows are fetched in parallel, under every
\* interleaving of the window workers each contract id is delivered to
\* OnAnyMatch at most once and added to the returned total at most once,
\* also when the contract is listed in several windows, and the returned
\* total is the sum of the amounts of the filter-passing summaries.
C31_NswDedupAndTotal ==
    /\ NswDeliveredOnce
    /\ NswTotalIsSumOfMatches

\* the same while Run has not fallen back to runNswWithBrowser
NswParallelPassOnly ==
    nswFirstErr # "errNswWAF" => NswDeliveredOnce /\ NswTotalIsSumOfMatches

\* the goroutines inside a callback of the request, that is, under
\* RunSearchWithCache, inside lakeWriterPool.write
NswInsideWrite ==
    { i \in NswWorkers : nswPc[i] = "in any" \/ nswPc[i] = "in match" }

\* the workers that have a summary to hand to a callback and are not inside
NswWantsWrite ==
    { i \in NswWorkers : nswPc[i] = "any" \/ nswPc[i] = "match" }

\* C32: during a run no two goroutines are inside lakeWriterPool.write at
\* the same time, also on the NSW path whose windows are handled by
\* concurrent workers: at most one goroutine is inside a callback.
C32_OneWriterAtATime == Cardinality(NswInsideWrite) <= 1

\* a worker is inside a callback while another has a summary to deliver
C32_Witness == NswInsideWrite # {} /\ NswWantsWrite # {}

(***************************************************************************)
(* Properties of the row handlers of the state sources.                    *)
(***************************************************************************)
\* how often a bag holds an id
BagCount(bag, id) == IF id \in DOMAIN bag THEN bag[id] ELSE 0

\* the rows a source keeps: those with a date (a row without one is not
\* turned into a summary)
NormalizedRows(rows) == { i \in 1..Len(rows) : rows[i].summary.ReleaseDate # ZeroTime }

\* row i passes the filters of the request
RowPasses(a, i) ==
    matchesSummaryFilters(a.req, [a.rows[i].summary EXCEPT !.Source = a.source],
                          IF a.source = sSa THEN ZeroTime ELSE a.rows[i].periodEnd)

\* every contract of the page was handed to OnAnyMatch; a contract handed to
\* OnMatch is one of a row that passes the filters; the total is the sum of
\* the amounts handed to OnMatch
AnyForEveryRow(a) ==
    \A i \in NormalizedRows(a.rows) :
        BagCount(a.out.any, a.rows[i].summary.ContractID) >= 1
MatchOnlyPassing(a) ==
    \A id \in DOMAIN a.out.match :
        \E i \in NormalizedRows(a.rows) :
            a.rows[i].summary.ContractID = id /\ RowPasses(a, i)
RECURSIVE BagSum(_, _)
BagSum(bag, ids) ==
    IF ids = {} THEN 0
    ELSE LET id == CHOOSE x \in ids : TRUE
             amount == IF id = sCN1 THEN PageRowKPMG.summary.Amount
                       ELSE IF id = sCN2 THEN PageRowAcme.summary.Amount
                       ELSE PageRowLate.summary.Amount
         IN  bag[id] * amount + BagSum(bag, ids \ {id})
TotalOfMatches(a) == a.out.total = BagSum(a.out.match, DOMAIN a.out.match)

C34_ExceptWa ==
    applied # << >> /\ applied.source # sWa =>
        /\ AnyForEveryRow(applied)
        /\ MatchOnlyPassing(applied)
        /\ TotalOfMatches(applied)

(***************************************************************************)
(* Properties of a RunSearchWithCache call that runs runNswWithBrowser.    *)
(***************************************************************************)
\* the call has run the source and returned
WrRan == wr.pc = "returned" /\ wrOut # << >>
\* what the call returned
WrResult == history[Len(history)]
\* the call has run the source and returned without error
WrRanOk == WrRan /\ ~WrResult.err

\* the summary passes the filters of the request
WrPasses(summary) == matchesSummaryFilters(wr.pre.runReq, summary, ZeroTime)

RECURSIVE SumAmounts(_)
SumAmounts(summaries) ==
    IF summaries = << >> THEN 0
    ELSE Head(summaries).Amount + SumAmounts(Tail(summaries))

\* the caller's OnMatch saw the filter-passing summaries among those handed
\* to OnAnyMatch, in order, the total of the source is their sum, and a call
\* that returns no error returns the cached total plus that sum
WrAggregationUntouched ==
    /\ wrOut.match = SelectSeq(wrOut.any, WrPasses)
    /\ wrOut.total = SumAmounts(wrOut.match)
    /\ WrRanOk => WrResult.total = formatMoneyDecimal(wr.pre.cachedTotal + wrOut.total)

\* a call during which pool.write returned an error reports it
WrFailuresReported == WrRan /\ wrOut.errs > 0 => WrResult.err

\* C35: a failure to open a lake writer or to write a match never aborts or
\* changes the aggregation (the total and the summaries OnMatch sees are
\* what they are without the failure), and the write failures of a run are
\* accumulated and reported by RunSearchWithCache when the run ends.
C35_WriteFailuresIsolatedAndReported ==
    WrRan => WrAggregationUntouched /\ WrFailuresReported

\* the first half alone
C35_AggregationUntouched == WrRan => WrAggregationUntouched

\* the rows the call added to the lake: those of the parts that were not
\* there when it started
WrAddedRows ==
    UNION { { <<path, i>> : i \in 1..Len(lakeFiles[path].rows) } :
              path \in DOMAIN lakeFiles \ DOMAIN wr.startFiles }
WrAddedRowsOf(id) ==
    { r \in WrAddedRows : lakeFiles[r[1]].rows[r[2]].ContractID = id }

\* C36: during one RunSearchWithCache run every release the source emits is
\* written to the lake at most once, also a release handed to both
\* OnAnyMatch and OnMatch, and when no write failed the number of rows
\* added equals the number of releases emitted.
C36_EachReleaseWrittenOnce ==
    WrRanOk =>
        /\ \A k \in 1..Len(wrOut.any) :
               Cardinality(WrAddedRowsOf(wrOut.any[k].ContractID)) <= 1
        /\ wrOut.errs = 0 => Cardinality(WrAddedRows) = Len(wrOut.any)

\* the same with every release counted once for OnAnyMatch and once more
\* when it was handed to OnMatch
WrRowsAreCalls ==
    WrRanOk /\ wrOut.errs = 0 =>
        Cardinality(WrAddedRows) = Len(wrOut.any) + Len(wrOut.match)

\* C37: within one source run under RunSearchWithCache the decision of
\* ShouldFetchWindow for each window is the one the lake gave when the run
\* started: no window is skipped because of a part created earlier in the
\* same run by the matches of another window.
C37_GateAsAtRunStart ==
    wrOut # << >> =>
        \A k \in 1..Len(wrOut.gates) :
            wrOut.gates[k] = gateOf(wr.startFiles, wr.req, wr.windows[k])

\* a call that started on an empty lake and returned no error has handed
\* every notice of the site to OnAnyMatch
WrNothingLost ==
    WrRanOk /\ wr.startFiles = << >> =>
        \A row \in wr.site : \E k \in 1..Len(wrOut.any) : wrOut.any[k] = row.summary

\* the short circuit is taken
WrShortTaken == wr.pc = "returned" /\ wrOut = << >>
WrNotShort == ~WrShortTaken

====
